---- MODULE Spec2Model ----
(***************************************************************************)
(* VoiceInk native layer: the CircularBuffer of the WASAPI recorder and    *)
(* the transcription job scheduler of WhisperTranscription.                *)
(***************************************************************************)
EXTENDS Integers, Sequences, FiniteSets, TLC

(***************************************************************************)
(* Bounds of the model.                                                    *)
(***************************************************************************)
\* largest capacity a CircularBuffer is constructed with
MaxCap == 3
\* largest total number of bytes written to one CircularBuffer
MaxWritten == 5
\* largest total number of bytes written in the concurrent buffer model
MaxConcWritten == 3

\* number of worker threads started by initialize()
NumWorkers == 1
\* number of worker threads when the claim is about several of them: two
\* of the DEFAULT_THREADS = 4 that initialize() starts
PoolSize == 2
\* largest number of jobs run one after another when the history is filled
MaxHistoryJobs == 101
\* number of distinct strings generateJobId() can return
MaxIds == 2
\* largest number of queueTranscription calls
MaxJobs == 2
MaxQueueSize == 2
MaxCaptured == 3
\* largest number of packets that go through processAudioData
MaxFrames == 3
\* largest number of frames in one packet
MaxPacketFrames == 2
\* largest number of packets the capture loop of a whole session gets
MaxLoopFrames == 2
\* largest number of packets the device delivers to the endpoint buffer
MaxStreamPackets == 3
\* largest number of packets that go through the queue and its readers
MaxQueueFrames == 4
CaptureCap == 2

\* byte values stored in the buffer
Bytes == {0, 1}

VARIABLES
    \* ---- CircularBuffer (audio-recorder/wasapi_recorder.h:41-46)
    buffer_,      \* std::vector<uint8_t> buffer_, indexed 0..size_-1
    head_,        \* write cursor
    tail_,        \* read cursor
    size_,        \* capacity
    mutex_,       \* owner of mutex_, or "free"
    \* ---- history of the calls made on the buffer
    written,      \* every byte accepted by Write since construction, in order
    sinceClear,   \* bytes accepted by Write since construction or the last Clear
    readOut,      \* bytes returned by Read since construction or the last Clear
    dropped,      \* TRUE once a Write has discarded unread bytes
    last,         \* the last completed call: arguments, results, state before
    \* ---- threads calling the buffer concurrently
    call,         \* per thread: the call in progress and its position
    lin,          \* buffer state after the calls in lock-acquisition order
    done,         \* per thread: result of the last returned call and the
                  \* result the same call gives when run alone on lin
    \* ---- WhisperTranscription (whisper_transcription.h:206-267)
    m_transcriptionQueue,  \* std::queue of jobs: the sequence of their ids
    m_activeJobs,          \* std::map id -> the job's TranscriptionProgress
    m_completedJobs,       \* std::map id -> TranscriptionProgress
    m_currentModel,        \* "null" or "ctx"
    m_loadedModelId,
    m_shouldStop,
    m_initialized,
    m_progressCallback,    \* TRUE when an observer is installed
    m_lastError,
    \* ---- threads of the scheduler
    wpc,          \* per worker: position in workerThread()
    wjob,         \* per worker: id of the job it dequeued, 0 for none
    wresult,      \* per worker: the TranscriptionResult of processAudio
    wfailed,      \* per worker: the backend failed while it produced wresult
    hostpc,       \* the calling thread: "idle" or inside a call
    hostjob,      \* id of the job queueTranscription is inserting
    crashed,      \* the process has died
    \* ---- history of the calls made on the scheduler
    njobs,        \* number of queueTranscription calls so far
    submitted,    \* ids returned by queueTranscription since the last cleanup
    cleanupCalled,
    everLoaded,   \* a model has been loaded at some time
    lastCall,     \* the call of the calling thread that has just returned
    ledger,       \* the jobs as objects: which job each queue entry, each
                  \* map entry and each worker's local is
    insertRaced,  \* a worker erased from m_activeJobs while the insertion
                  \* the host is still inside was under way
    \* ---- WhisperTranscriber (whisper-binding/whisper_transcriber.h)
    files,                 \* the paths at which a file exists on disk
    context_,              \* "null" or the model_path of the whisper_context
    current_model_path_,
    model_loaded_,
    last_error_,
    returned,     \* the WhisperTranscriber call that has just returned
    \* ---- WASAPIRecorder (native/wasapi_recorder.h:108-130)
    m_device,              \* TRUE when the pointer is not null
    m_audioClient,         \* "null", or the stream: "stopped" or "started"
    m_captureClient,       \* TRUE when the pointer is not null
    m_isRecording,
    m_isPaused,
    r_shouldStop,          \* WASAPIRecorder::m_shouldStop
    r_lastError,           \* WASAPIRecorder::m_lastError
    m_recordingThread,     \* "none", "running", or "finished" and not joined
    m_audioQueue,          \* std::queue<AudioBuffer>: the sequence of buffers
    bufferOverruns,        \* m_perfStats.bufferOverruns
    m_currentLevel,        \* floats are fixed point, in 1/Unit
    m_peakLevel,
    m_vadLevel,
    m_gainLevel,           \* in 1/GainOne
    m_noiseSuppressionEnabled,
    m_agcEnabled,
    m_echoCancellationEnabled,
    m_audioDataCallback,   \* TRUE when an observer is registered
    nChannels,             \* m_waveFormat.nChannels
    \* ---- history of the frames that went through processAudioData
    nframes,      \* number of processAudioData calls so far
    fedZero,      \* every sample fed to processAudioData so far was 0
    captured,     \* every sample put into the queue, in order, numbered
    evicted,      \* numbers of the samples dropped from a full queue
    evictions,    \* number of buffers dropped from a full queue
    delivered,    \* every sample handed out by getAudioData/getAudioBuffer
    handed,       \* the samples the last such call returned
    frame,        \* the last processAudioData call: decision and effects
    \* ---- the capture thread between the device and processAudioData
    endpointBuffer, \* the packets the endpoint buffer holds, oldest first
    peakLoaded,   \* the value m_peakLevel.load() returned to a running
                  \* updateAudioLevels, NotLoaded outside of one
    resetAt,      \* Len(captured) when resetPeakLevel() was last called
    r_crashed,             \* the process has died inside the recorder
    recCall,      \* the WASAPIRecorder call that has just returned
    \* ---- WASAPIRecorder (audio-recorder/wasapi_recorder.h:78-95); its
    \* audioBuffer_ is the CircularBuffer above
    recorder,              \* which of the two WASAPIRecorder classes is built
    initialized_,
    recording_,
    audioClient_,          \* "null", or the stream: "stopped" or "started"
    recordingThread_,      \* "none" or "running"
    lastError_,
    capCall,      \* the call on this recorder that has just returned
    audioFormat_, \* WAVEFORMATEX: the format Initialize bound
    wavFile,      \* the file SaveToWAV writes: whether it exists, its bytes
    savepc,       \* where a SaveToWAV call is: "idle" or "read"
    saveAvailable, \* the availableData of the SaveToWAV call under way
    wavRead       \* what the last ReadWAVFile call returned

rbvars == <<buffer_, head_, tail_, size_, mutex_, written, sinceClear,
            readOut, dropped, last, call, lin, done>>

\* the queue and the two job maps
qvars == <<m_transcriptionQueue, m_activeJobs, m_completedJobs>>
\* the loaded model
mvars == <<m_currentModel, m_loadedModelId, everLoaded>>
\* the locals of the workers
tvars == <<wpc, wjob, wresult, wfailed>>

svars == <<qvars, mvars, tvars, m_shouldStop, m_initialized,
           m_progressCallback, m_lastError, hostpc, hostjob, crashed, njobs,
           submitted, cleanupCalled, lastCall, ledger, insertRaced>>

wtvars == <<files, context_, current_model_path_, model_loaded_,
            last_error_, returned>>

\* the queue of captured buffers and what processAudioData works on
processed == <<m_audioQueue, bufferOverruns, m_currentLevel, m_peakLevel,
               m_vadLevel, nframes, fedZero, captured, evicted, evictions,
               delivered, handed, frame>>
pvars == <<processed, endpointBuffer, peakLoaded, resetAt>>

\* the settings of the processing chain
cfgvars == <<m_gainLevel, m_noiseSuppressionEnabled, m_agcEnabled,
             m_echoCancellationEnabled, m_audioDataCallback, nChannels>>

recvars == <<m_device, m_audioClient, m_captureClient, m_isRecording,
             m_isPaused, r_shouldStop, r_lastError, m_recordingThread,
             pvars, cfgvars, r_crashed, recCall>>

\* the WAV file, its writer and its reader
wavvars == <<audioFormat_, wavFile, savepc, saveAvailable, wavRead>>

capvars == <<recorder, initialized_, recording_, audioClient_,
             recordingThread_, lastError_, capCall, wavvars>>

\* what the calls on a CircularBuffer leave alone
nonring == <<svars, wtvars, recvars, capvars>>

\* what the scheduler leaves alone
nonsched == <<rbvars, wtvars, recvars, capvars>>

\* what a WhisperTranscriber leaves alone
nontranscriber == <<rbvars, svars, recvars, capvars>>

\* what the WASAPIRecorder of native/wasapi_recorder.cpp leaves alone
nonrecorder == <<rbvars, svars, wtvars, capvars>>

\* what the WASAPIRecorder of audio-recorder/wasapi_recorder.cpp leaves
\* alone, besides the process and its audioBuffer_
outsidecapture ==
    <<svars, wtvars, m_device, m_audioClient, m_captureClient, m_isRecording,
      m_isPaused, r_shouldStop, r_lastError, m_recordingThread, pvars,
      cfgvars, recCall, recorder>>

\* the same and the WAV file with the format that describes it
noncapture == <<outsidecapture, wavvars>>

vars == <<rbvars, svars, wtvars, recvars, capvars>>

(***************************************************************************)
(* CircularBuffer.  A buffer state is a record [buf, head, tail].          *)
(***************************************************************************)
Cur == [buf |-> buffer_, head |-> head_, tail |-> tail_]

\* CircularBuffer::CircularBuffer: zero-filled storage, both cursors at 0
NewBuffer(n) == [buf |-> [i \in 0..(n - 1) |-> 0], head |-> 0, tail |-> 0]

\* one iteration of the for loop of Write that forgets to wrap the cursor
WriteByte_NoWrap(s, b) ==
    LET h == s.head + 1
    IN  [buf  |-> [s.buf EXCEPT ![s.head] = b],
         head |-> h,
         tail |-> IF h = s.tail THEN (s.tail + 1) % size_ ELSE s.tail]

\* one iteration of the for loop of Write that never moves the read cursor
WriteByte_KeepTail(s, b) ==
    [buf  |-> [s.buf EXCEPT ![s.head] = b],
     head |-> (s.head + 1) % size_,
     tail |-> s.tail]

\* one iteration of the for loop of Write: store, advance head, and when head
\* reaches tail push tail forward
WriteByte(s, b) ==
    LET h == (s.head + 1) % size_
    IN  [buf  |-> [s.buf EXCEPT ![s.head] = b],
         head |-> h,
         tail |-> IF h = s.tail THEN (s.tail + 1) % size_ ELSE s.tail]

RECURSIVE WriteLoop(_, _, _)
WriteLoop(s, data, i) ==
    IF i > Len(data) THEN s
    ELSE WriteLoop(WriteByte(s, data[i]), data, i + 1)

\* Write that rejects a request of exactly size_ bytes
Write_RejectFull(s, data) ==
    IF Len(data) >= size_ THEN [ret |-> FALSE, st |-> s]
    ELSE [ret |-> TRUE, st |-> WriteLoop(s, data, 1)]

\* CircularBuffer::Write
Write(s, data) ==
    IF Len(data) > size_ THEN [ret |-> FALSE, st |-> s]
    ELSE [ret |-> TRUE, st |-> WriteLoop(s, data, 1)]

\* the loop condition of Read
ReadMore(s, n, out) == Len(out) < n /\ s.tail # s.head

\* one iteration of the while loop of Read: the cursor after the copy
ReadByte(s) == [s EXCEPT !.tail = (s.tail + 1) % size_]

RECURSIVE ReadLoop(_, _, _)
ReadLoop(s, n, out) ==
    IF ReadMore(s, n, out)
    THEN ReadLoop(ReadByte(s), n, Append(out, s.buf[s.tail]))
    ELSE [out |-> out, st |-> s]

\* CircularBuffer::Read; the return value is Len(out)
Read(s, n) == ReadLoop(s, n, <<>>)

\* CircularBuffer::AvailableData
AvailableData(s) ==
    IF s.head >= s.tail THEN s.head - s.tail
    ELSE size_ - s.tail + s.head

\* CircularBuffer::Clear
Clear(s) == [s EXCEPT !.head = 0, !.tail = 0]

\* the unread bytes: what a Read of everything available returns
Unread(s) == Read(s, size_).out

Suffix(seq, k) == SubSeq(seq, Len(seq) - k + 1, Len(seq))
Min(a, b) == IF a < b THEN a ELSE b

NoCall == [op |-> "idle", data |-> <<>>, n |-> 0, i |-> 0, out |-> <<>>]
RBThreads == {"capture", "reader", "saver"}

NoLast == [op |-> "ctor", n |-> 0, data |-> <<>>, ret |-> TRUE, cnt |-> 0,
           out |-> <<>>, pre |-> NewBuffer(1)]

(***************************************************************************)
(* The buffer used by one thread at a time: each call is one step.         *)
(***************************************************************************)
\* the buffer and its threads right after construction with a capacity in caps
BufferInit(caps) ==
    /\ size_ \in caps
    /\ buffer_ = NewBuffer(size_).buf
    /\ head_ = 0
    /\ tail_ = 0
    /\ mutex_ = "free"
    /\ written = <<>>
    /\ sinceClear = <<>>
    /\ readOut = <<>>
    /\ dropped = FALSE
    /\ last = [NoLast EXCEPT !.pre = NewBuffer(size_)]
    /\ call = [t \in RBThreads |-> NoCall]
    /\ lin = NewBuffer(size_)
    /\ done = [t \in RBThreads |-> [op |-> "none"]]

SetBuffer(s) ==
    /\ buffer_' = s.buf
    /\ head_' = s.head
    /\ tail_' = s.tail

WriteCall ==
    \E n \in 0..(size_ + 1) : \E data \in [1..n -> Bytes] :
        LET r == Write(Cur, data)
        IN  /\ Len(written) + n <= MaxWritten
            /\ SetBuffer(r.st)
            /\ written' = IF r.ret THEN written \o data ELSE written
            /\ sinceClear' = IF r.ret THEN sinceClear \o data ELSE sinceClear
            /\ dropped' = (dropped \/ (r.ret /\
                   AvailableData(r.st) < AvailableData(Cur) + n))
            /\ last' = [op |-> "Write", n |-> n, data |-> data, ret |-> r.ret,
                        cnt |-> 0, out |-> <<>>, pre |-> Cur]
            /\ UNCHANGED nonring /\ UNCHANGED <<size_, mutex_, readOut, call, lin, done>>

ReadCall ==
    \E n \in 0..(size_ + 1) :
        LET r == Read(Cur, n)
        IN  /\ SetBuffer(r.st)
            /\ readOut' = readOut \o r.out
            /\ last' = [op |-> "Read", n |-> n, data |-> <<>>, ret |-> TRUE,
                        cnt |-> Len(r.out), out |-> r.out, pre |-> Cur]
            /\ UNCHANGED nonring /\ UNCHANGED <<size_, mutex_, written, sinceClear, dropped,
                           call, lin, done>>

AvailableDataCall ==
    /\ last' = [op |-> "AvailableData", n |-> 0, data |-> <<>>, ret |-> TRUE,
                cnt |-> AvailableData(Cur), out |-> <<>>, pre |-> Cur]
    /\ UNCHANGED nonring /\ UNCHANGED <<buffer_, head_, tail_, size_, mutex_, written, sinceClear,
                   readOut, dropped, call, lin, done>>

ClearCall ==
    /\ SetBuffer(Clear(Cur))
    /\ sinceClear' = <<>>
    /\ readOut' = <<>>
    /\ last' = [op |-> "Clear", n |-> 0, data |-> <<>>, ret |-> TRUE,
                cnt |-> 0, out |-> <<>>, pre |-> Cur]
    /\ UNCHANGED nonring /\ UNCHANGED <<size_, mutex_, written, dropped, call, lin, done>>

(***************************************************************************)
(* The buffer shared by the capture thread (RecordingThreadProc calls      *)
(* Write) and consumer threads (GetAudioData, SaveToWAV, ClearBuffer call  *)
(* Read, AvailableData, Clear).  A call is entered by taking mutex_, runs  *)
(* its loop one iteration per step, and gives mutex_ back when it returns. *)
(* lin is the buffer the whole calls give when run one after another in    *)
(* the order in which they took the mutex.                                 *)
(***************************************************************************)
Consumers == RBThreads \ {"capture"}

\* entering a call without taking the mutex
Lock_NoMutex(t) == TRUE

\* std::lock_guard<std::mutex> lock(mutex_): enter only when nobody holds it
Lock(t) == mutex_ = "free"

Idle(t) == call[t].op = "idle"

WriteEnter(t) ==
    /\ t = "capture"
    /\ Idle(t)
    /\ Lock(t)
    /\ \E n \in 0..(size_ + 1) : \E data \in [1..n -> Bytes] :
          /\ Len(written) + n <= MaxConcWritten
          /\ call' = [call EXCEPT ![t] = [op |-> "Write", data |-> data,
                                         n |-> n, i |-> 1, out |-> <<>>]]
          /\ lin' = Write(lin, data).st
          /\ done' = [done EXCEPT ![t] =
                         [op |-> "entered", exp |-> <<Write(lin, data).ret>>]]
          /\ written' = IF n <= size_ THEN written \o data ELSE written
    /\ mutex_' = t
    /\ UNCHANGED nonring /\ UNCHANGED <<buffer_, head_, tail_, size_, sinceClear, readOut,
                   dropped, last>>

WriteStep(t) ==
    /\ call[t].op = "Write"
    /\ call[t].n <= size_
    /\ call[t].i <= call[t].n
    /\ SetBuffer(WriteByte(Cur, call[t].data[call[t].i]))
    /\ call' = [call EXCEPT ![t].i = @ + 1]
    /\ UNCHANGED nonring /\ UNCHANGED <<size_, mutex_, written, sinceClear, readOut, dropped, last,
                   lin, done>>

WriteReturn(t) ==
    /\ call[t].op = "Write"
    /\ call[t].n > size_ \/ call[t].i > call[t].n
    /\ done' = [done EXCEPT ![t] = [op |-> "Write", exp |-> done[t].exp,
                                    got |-> <<call[t].n <= size_>>]]
    /\ call' = [call EXCEPT ![t] = NoCall]
    /\ mutex_' = "free"
    /\ UNCHANGED nonring /\ UNCHANGED <<buffer_, head_, tail_, size_, written, sinceClear, readOut,
                   dropped, last, lin>>

ReadEnter(t) ==
    /\ t \in Consumers
    /\ Idle(t)
    /\ Lock(t)
    /\ \E n \in 0..size_ :
          /\ call' = [call EXCEPT ![t] = [op |-> "Read", data |-> <<>>,
                                         n |-> n, i |-> 0, out |-> <<>>]]
          /\ lin' = Read(lin, n).st
          /\ done' = [done EXCEPT ![t] =
                         [op |-> "entered", exp |-> Read(lin, n).out]]
    /\ mutex_' = t
    /\ UNCHANGED nonring /\ UNCHANGED <<buffer_, head_, tail_, size_, written, sinceClear, readOut,
                   dropped, last>>

ReadStep(t) ==
    /\ call[t].op = "Read"
    /\ ReadMore(Cur, call[t].n, call[t].out)
    /\ call' = [call EXCEPT ![t].out = Append(@, buffer_[tail_])]
    /\ SetBuffer(ReadByte(Cur))
    /\ UNCHANGED nonring /\ UNCHANGED <<size_, mutex_, written, sinceClear, readOut, dropped, last,
                   lin, done>>

ReadReturn(t) ==
    /\ call[t].op = "Read"
    /\ ~ReadMore(Cur, call[t].n, call[t].out)
    /\ done' = [done EXCEPT ![t] = [op |-> "Read", exp |-> done[t].exp,
                                    got |-> call[t].out]]
    /\ call' = [call EXCEPT ![t] = NoCall]
    /\ mutex_' = "free"
    /\ UNCHANGED nonring /\ UNCHANGED <<buffer_, head_, tail_, size_, written, sinceClear, readOut,
                   dropped, last, lin>>

AvailableDataEnter(t) ==
    /\ t \in Consumers
    /\ Idle(t)
    /\ Lock(t)
    /\ call' = [call EXCEPT ![t] = [NoCall EXCEPT !.op = "AvailableData"]]
    /\ done' = [done EXCEPT ![t] =
                   [op |-> "entered", exp |-> <<AvailableData(lin)>>]]
    /\ mutex_' = t
    /\ UNCHANGED nonring /\ UNCHANGED <<buffer_, head_, tail_, size_, written, sinceClear, readOut,
                   dropped, last, lin>>

AvailableDataReturn(t) ==
    /\ call[t].op = "AvailableData"
    /\ done' = [done EXCEPT ![t] = [op |-> "AvailableData",
                                    exp |-> done[t].exp,
                                    got |-> <<AvailableData(Cur)>>]]
    /\ call' = [call EXCEPT ![t] = NoCall]
    /\ mutex_' = "free"
    /\ UNCHANGED nonring /\ UNCHANGED <<buffer_, head_, tail_, size_, written, sinceClear, readOut,
                   dropped, last, lin>>

ClearEnter(t) ==
    /\ t \in Consumers
    /\ Idle(t)
    /\ Lock(t)
    /\ call' = [call EXCEPT ![t] = [NoCall EXCEPT !.op = "Clear"]]
    /\ lin' = Clear(lin)
    /\ done' = [done EXCEPT ![t] = [op |-> "entered", exp |-> <<>>]]
    /\ mutex_' = t
    /\ UNCHANGED nonring /\ UNCHANGED <<buffer_, head_, tail_, size_, written, sinceClear, readOut,
                   dropped, last>>

ClearReturn(t) ==
    /\ call[t].op = "Clear"
    /\ SetBuffer(Clear(Cur))
    /\ done' = [done EXCEPT ![t] = [op |-> "Clear", exp |-> done[t].exp,
                                    got |-> <<>>]]
    /\ call' = [call EXCEPT ![t] = NoCall]
    /\ mutex_' = "free"
    /\ UNCHANGED nonring /\ UNCHANGED <<size_, written, sinceClear, readOut, dropped, last, lin>>


(***************************************************************************)
(* WhisperTranscription: the job queue, its worker pool and the calls of   *)
(* the host thread.                                                        *)
(***************************************************************************)
Workers == 1..NumWorkers
JobIds == 1..MaxIds
\* two of the model ids of getAvailableModels()
ModelIds == {"tiny", "base"}
Terminal == {"COMPLETED", "ERROR", "CANCELLED"}

\* progress checkpoints, in percent
P0 == 0
P20 == 20
P90 == 90
P100 == 100

\* the bound declared for the completed history
MAX_COMPLETED_JOBS == 100

\* values an uninitialised float can show, in percent
Garbage == {-50, 50, 150}

EmptyMap == [x \in {} |-> 0]
Put(m, k, v) == [x \in DOMAIN m \cup {k} |-> IF x = k THEN v ELSE m[x]]
Erase(m, k) == [x \in DOMAIN m \ {k} |-> m[x]]

NoJob == 0
NoHostCall ==
    [op |-> "none", id |-> NoJob, was |-> "none", progress |-> P0, msg |-> ""]

\* The jobs as objects.  A TranscriptionJob is numbered by the
\* queueTranscription call that made it; the ids of two jobs can be equal,
\* their numbers cannot.  queue: the job behind each entry of
\* m_transcriptionQueue; active: the job whose record m_activeJobs holds
\* under an id; held: the job in the local `job` of a worker; taken: how
\* many times a job has been dequeued; terminal: how many times the observer
\* has been called with a COMPLETED or ERROR record of the job.
Ledger(on, pool) ==
    [on |-> on, queue |-> <<>>,
     active |-> [id \in JobIds |-> NoJob],
     held |-> [w \in pool |-> NoJob],
     taken |-> [j \in 1..MaxJobs |-> 0],
     terminal |-> [j \in 1..MaxJobs |-> 0]]

\* m_transcriptionQueue.push(job); m_activeJobs[jobId] = job
Inserted(l, id, job) ==
    IF l.on THEN [l EXCEPT !.queue = Append(@, job), !.active[id] = job]
    ELSE l

\* a dequeue that reads the front entry and leaves it in the queue
Popped_FrontKept(queue) == queue

\* m_transcriptionQueue.pop()
Popped(queue) == Tail(queue)

\* job = m_transcriptionQueue.front(); m_transcriptionQueue.pop()
Dequeued(l, w) ==
    IF l.on
    THEN [l EXCEPT !.queue = Popped(@), !.held[w] = Head(l.queue),
                   !.taken[Head(l.queue)] = @ + 1]
    ELSE l

\* m_progressCallback(m_completedJobs[jobId]) in completeJob and failJob:
\* the record is the one the active map held under the id
TerminalCallback(l, id, called) ==
    IF l.on /\ called THEN [l EXCEPT !.terminal[l.active[id]] = @ + 1]
    ELSE l

\* the progress record queueTranscription gives a new job
QueuedProgress ==
    [status |-> "QUEUED", progress |-> P0, result |-> "none",
     errorMessage |-> ""]

\* the stub getTranscriptionProgress builds for an unknown id: status and
\* errorMessage are set, progress is left uninitialised
NotFound(g) ==
    [status |-> "ERROR", progress |-> g, result |-> "none",
     errorMessage |-> "Job not found"]

\* a lookup that searches the active map before the history
Progress_ActiveFirst(id) ==
    IF id \in DOMAIN m_activeJobs THEN {m_activeJobs[id]}
    ELSE IF id \in DOMAIN m_completedJobs THEN {m_completedJobs[id]}
    ELSE {NotFound(g) : g \in Garbage}

\* the records getTranscriptionProgress(id) can return: the completed one
\* first, then the active one, else the stub
Progress(id) ==
    IF id \in DOMAIN m_completedJobs THEN {m_completedJobs[id]}
    ELSE IF id \in DOMAIN m_activeJobs THEN {m_activeJobs[id]}
    ELSE {NotFound(g) : g \in Garbage}

\* the status getTranscriptionProgress(id) reports for a job it knows, "none"
\* when it has no record of id
Status(id) ==
    IF id \in DOMAIN m_completedJobs THEN m_completedJobs[id].status
    ELSE IF id \in DOMAIN m_activeJobs THEN m_activeJobs[id].status
    ELSE "none"

SchedulerInitWith(pool, jobsTracked) ==
    /\ m_transcriptionQueue = <<>>
    /\ m_activeJobs = EmptyMap
    /\ m_completedJobs = EmptyMap
    /\ m_currentModel = "null"
    /\ m_loadedModelId = ""
    /\ m_shouldStop = FALSE
    /\ m_initialized = FALSE
    /\ m_progressCallback = FALSE
    /\ m_lastError = ""
    /\ wpc = [w \in pool |-> "none"]
    /\ wjob = [w \in pool |-> NoJob]
    /\ wresult = [w \in pool |-> "none"]
    /\ wfailed = [w \in pool |-> FALSE]
    /\ hostpc = "idle"
    /\ hostjob = NoJob
    /\ crashed = FALSE
    /\ njobs = 0
    /\ submitted = {}
    /\ cleanupCalled = FALSE
    /\ everLoaded = FALSE
    /\ lastCall = NoHostCall
    /\ ledger = Ledger(jobsTracked, pool)
    /\ insertRaced = FALSE

SchedulerInit == SchedulerInitWith(Workers, FALSE)

HostIdle == ~crashed /\ hostpc = "idle"

\* ---- calls of the host thread

\* WhisperTranscription::initialize
initialize ==
    /\ HostIdle
    /\ IF m_initialized
       THEN UNCHANGED <<m_shouldStop, wpc, m_initialized>>
       ELSE /\ m_shouldStop' = FALSE
            /\ wpc' = [w \in DOMAIN wpc |-> "loop"]
            /\ m_initialized' = TRUE
    /\ lastCall' = NoHostCall
    /\ UNCHANGED <<qvars, mvars, wjob, wresult, wfailed, m_progressCallback,
                   m_lastError, hostpc, hostjob, crashed, njobs, submitted,
                   cleanupCalled>>
    /\ UNCHANGED <<ledger, insertRaced, nonsched>>

\* WhisperTranscription::cleanup up to the join of the workers
cleanup ==
    /\ HostIdle
    /\ cleanupCalled' = TRUE
    /\ IF m_initialized
       THEN /\ m_shouldStop' = TRUE
            /\ hostpc' = "joining"
       ELSE UNCHANGED <<m_shouldStop, hostpc>>
    /\ lastCall' = NoHostCall
    /\ UNCHANGED <<qvars, mvars, tvars, m_initialized, m_progressCallback,
                   m_lastError, hostjob, crashed, njobs, submitted>>
    /\ UNCHANGED <<ledger, insertRaced, nonsched>>

\* WhisperTranscription::cleanup once every worker has been joined:
\* unloadModel(), then the queue and both maps are emptied
cleanupJoined ==
    /\ ~crashed
    /\ hostpc = "joining"
    /\ \A w \in DOMAIN wpc : wpc[w] = "exited"
    /\ wpc' = [w \in DOMAIN wpc |-> "none"]
    /\ ledger' = [ledger EXCEPT !.queue = <<>>]
    /\ insertRaced' = FALSE
    /\ m_currentModel' = "null"
    /\ m_loadedModelId' = ""
    /\ m_transcriptionQueue' = <<>>
    /\ m_activeJobs' = EmptyMap
    /\ m_completedJobs' = EmptyMap
    /\ m_initialized' = FALSE
    /\ hostpc' = "idle"
    /\ submitted' = {}
    /\ lastCall' = NoHostCall
    /\ UNCHANGED <<everLoaded, wjob, wresult, wfailed, m_shouldStop,
                   m_progressCallback, m_lastError, hostjob, crashed, njobs,
                   cleanupCalled>>
    /\ UNCHANGED nonsched

\* WhisperTranscription::generateJobId: "job_<milliseconds>_<6 random
\* digits>"; nothing keeps two calls from returning the same string
generateJobId == JobIds

\* WhisperTranscription::queueTranscription up to the point where m_queueMutex
\* is held and the job is being put into the queue and the active map
queueTranscription ==
    /\ HostIdle
    /\ njobs < MaxJobs
    /\ hostjob' \in generateJobId
    /\ hostpc' = "inserting"
    /\ njobs' = njobs + 1
    /\ lastCall' = NoHostCall
    /\ UNCHANGED <<qvars, mvars, tvars, m_shouldStop, m_initialized,
                   m_progressCallback, m_lastError, crashed, submitted,
                   cleanupCalled>>
    /\ UNCHANGED <<ledger, insertRaced, nonsched>>

\* m_activeJobs[jobId] = job under m_queueMutex (line 381).  completeJob and
\* failJob erase from the same tree under m_progressMutex, so an insertion
\* that overlapped such an erase was unsynchronised: the tree comes out with
\* the new entry, or as the erase left it.
Assigned(m, k, v) ==
    IF insertRaced THEN {Put(m, k, v), m} ELSE {Put(m, k, v)}

\* WhisperTranscription::queueTranscription, lines 380-385: the push, the
\* map assignment, the unlock and the return of the id
queueTranscriptionInsert ==
    /\ ~crashed
    /\ hostpc = "inserting"
    /\ m_transcriptionQueue' = Append(m_transcriptionQueue, hostjob)
    /\ m_activeJobs' \in Assigned(m_activeJobs, hostjob, QueuedProgress)
    /\ ledger' = IF hostjob \in DOMAIN m_activeJobs'
                 THEN Inserted(ledger, hostjob, njobs)
                 ELSE [Inserted(ledger, hostjob, njobs)
                          EXCEPT !.active = ledger.active]
    /\ insertRaced' = FALSE
    /\ submitted' = submitted \cup {hostjob}
    /\ hostpc' = "idle"
    /\ hostjob' = NoJob
    /\ lastCall' = NoHostCall
    /\ UNCHANGED <<m_completedJobs, mvars, tvars, m_shouldStop,
                   m_initialized, m_progressCallback, m_lastError, crashed,
                   njobs, cleanupCalled>>
    /\ UNCHANGED nonsched

\* WhisperTranscription::getTranscriptionProgress
getTranscriptionProgress(id) ==
    /\ HostIdle
    /\ \E r \in Progress(id) :
          lastCall' = [op |-> "getTranscriptionProgress", id |-> id,
                       was |-> r.status, progress |-> r.progress,
                       msg |-> r.errorMessage]
    /\ UNCHANGED <<qvars, mvars, tvars, m_shouldStop, m_initialized,
                   m_progressCallback, m_lastError, hostpc, hostjob, crashed,
                   njobs, submitted, cleanupCalled>>
    /\ UNCHANGED <<ledger, insertRaced, nonsched>>

\* WhisperBinding::CancelTranscription, the only cancel code there is:
\* NAPI_METHOD_PLACEHOLDER returns env.Undefined() and touches nothing
\* (WhisperTranscription::cancelTranscription is declared and never defined)
CancelTranscription(id) ==
    /\ HostIdle
    /\ id \in submitted
    /\ lastCall' = [op |-> "cancelTranscription", id |-> id,
                    was |-> Status(id), progress |-> P0, msg |-> ""]
    /\ UNCHANGED <<qvars, mvars, tvars, m_shouldStop, m_initialized,
                   m_progressCallback, m_lastError, hostpc, hostjob, crashed,
                   njobs, submitted, cleanupCalled>>
    /\ UNCHANGED <<ledger, insertRaced, nonsched>>

\* WhisperTranscription::setProgressCallback
setProgressCallback ==
    /\ HostIdle
    /\ m_progressCallback' = ~m_progressCallback
    /\ lastCall' = NoHostCall
    /\ UNCHANGED <<qvars, mvars, tvars, m_shouldStop, m_initialized,
                   m_lastError, hostpc, hostjob, crashed, njobs, submitted,
                   cleanupCalled>>
    /\ UNCHANGED <<ledger, insertRaced, nonsched>>

\* WhisperTranscription::loadModel.  exists: the model file is on disk;
\* ok: whisper_init_from_file returns a context.  With another model loaded
\* the call reaches unloadModel() while it holds m_modelMutex, and
\* unloadModel() locks m_modelMutex again: the thread blocks for ever or the
\* lock fails and ends the process.
loadModel(modelId) ==
    /\ HostIdle
    /\ \E exists \in BOOLEAN, ok \in BOOLEAN, dies \in BOOLEAN :
          IF m_loadedModelId = modelId /\ m_currentModel # "null"
          THEN UNCHANGED <<mvars, m_lastError, hostpc, crashed>>
          ELSE IF m_currentModel # "null"
          THEN /\ hostpc' = IF dies THEN hostpc ELSE "deadlocked"
               /\ crashed' = dies
               /\ UNCHANGED <<mvars, m_lastError>>
          ELSE IF modelId \notin ModelIds
          THEN /\ m_lastError' = "Model not found"
               /\ UNCHANGED <<mvars, hostpc, crashed>>
          ELSE IF ~exists
          THEN /\ m_lastError' = "Model file not found"
               /\ UNCHANGED <<mvars, hostpc, crashed>>
          ELSE IF ~ok
          THEN /\ m_lastError' = "Failed to load Whisper model"
               /\ UNCHANGED <<mvars, hostpc, crashed>>
          ELSE /\ m_currentModel' = "ctx"
               /\ m_loadedModelId' = modelId
               /\ everLoaded' = TRUE
               /\ UNCHANGED <<m_lastError, hostpc, crashed>>
    /\ lastCall' = NoHostCall
    /\ UNCHANGED <<qvars, tvars, m_shouldStop, m_initialized,
                   m_progressCallback, hostjob, njobs, submitted,
                   cleanupCalled>>
    /\ UNCHANGED <<ledger, insertRaced, nonsched>>

\* WhisperTranscription::unloadModel
unloadModel ==
    /\ HostIdle
    /\ m_currentModel' = "null"
    /\ m_loadedModelId' = ""
    /\ lastCall' = NoHostCall
    /\ UNCHANGED <<qvars, tvars, everLoaded, m_shouldStop, m_initialized,
                   m_progressCallback, m_lastError, hostpc, hostjob, crashed,
                   njobs, submitted, cleanupCalled>>
    /\ UNCHANGED <<ledger, insertRaced, nonsched>>

\* WhisperTranscription::processAudio with the default options: a clip in
\* which detectVoiceActivity finds no voice gives an empty result; otherwise
\* transcribeWithWhisper runs, and when the backend reports a failure the
\* result comes back empty too, after setError
processAudio(voiced, backendOk) ==
    [result |-> IF voiced /\ backendOk THEN "text" ELSE "empty",
     error  |-> IF voiced /\ ~backendOk THEN "Whisper transcription failed"
                ELSE ""]

\* m_lastError after a processAudio that returned r
setError_Overwrites(r) == r.error

setError(r) == IF r.error = "" THEN m_lastError ELSE r.error

\* the sample buffers handed to a transcription: no samples at all, samples
\* without voice, samples with voice
Samples == {"empty", "silent", "voiced"}

\* WhisperTranscription::detectVoiceActivity: the RMS energy of the samples
\* against the threshold; for no samples the energy is 0/0 and the comparison
\* is false
detectVoiceActivity(samples) == samples = "voiced"

\* WhisperTranscription::transcribeBuffer: the only place that looks at
\* m_currentModel before transcribing.  lastCall.msg is the error the call
\* recorded, "" when it recorded none.
transcribeBuffer ==
    /\ HostIdle
    /\ \E samples \in Samples, ok \in BOOLEAN :
          LET r == processAudio(detectVoiceActivity(samples), ok)
              error == IF m_currentModel = "null" THEN "No model loaded"
                       ELSE r.error
          IN  /\ m_lastError' = setError([r EXCEPT !.error = error])
              /\ lastCall' = [op |-> "transcribeBuffer", id |-> NoJob,
                              was |-> samples, progress |-> P0,
                              msg |-> error]
    /\ UNCHANGED <<qvars, mvars, tvars, m_shouldStop, m_initialized,
                   m_progressCallback, hostpc, hostjob, crashed, njobs,
                   submitted, cleanupCalled>>
    /\ UNCHANGED <<ledger, insertRaced, nonsched>>

\* transcribeBuffer as the steps of the calling thread, for a clip with
\* voice and a model loaded: the thread reaches whisper_full(m_currentModel,
\* ...) through processAudio; no lock is taken on the way
transcribeBufferEnter ==
    /\ HostIdle
    /\ m_currentModel # "null"
    /\ hostpc' = "model"
    /\ lastCall' = NoHostCall
    /\ UNCHANGED <<qvars, mvars, tvars, m_shouldStop, m_initialized,
                   m_progressCallback, m_lastError, hostjob, crashed, njobs,
                   submitted, cleanupCalled>>
    /\ UNCHANGED <<ledger, insertRaced, nonsched>>

\* whisper_full returns, and processAudio and transcribeBuffer with it
transcribeBufferReturn ==
    /\ ~crashed
    /\ hostpc = "model"
    /\ \E ok \in BOOLEAN :
          LET r == processAudio(TRUE, ok)
          IN  /\ m_lastError' = setError(r)
              /\ lastCall' = [op |-> "transcribeBuffer", id |-> NoJob,
                              was |-> "voiced", progress |-> P0,
                              msg |-> r.error]
    /\ hostpc' = "idle"
    /\ UNCHANGED <<qvars, mvars, tvars, m_shouldStop, m_initialized,
                   m_progressCallback, hostjob, crashed, njobs, submitted,
                   cleanupCalled>>
    /\ UNCHANGED <<ledger, insertRaced, nonsched>>

\* WhisperTranscription::clearError
clearError ==
    /\ HostIdle
    /\ m_lastError' = ""
    /\ lastCall' = [NoHostCall EXCEPT !.op = "clearError"]
    /\ UNCHANGED <<qvars, mvars, tvars, m_shouldStop, m_initialized,
                   m_progressCallback, hostpc, hostjob, crashed, njobs,
                   submitted, cleanupCalled>>
    /\ UNCHANGED <<ledger, insertRaced, nonsched>>

\* ---- workerThread

\* m_activeJobs.find(jobId) under m_progressMutex.  queueTranscription writes
\* the same map under m_queueMutex, so a lookup made while the host is inside
\* its insertion is unsynchronised and may miss an entry that is there.
Find(id) ==
    IF hostpc = "inserting" THEN {id \in DOMAIN m_activeJobs, FALSE}
    ELSE {id \in DOMAIN m_activeJobs}

\* m_progressCallback(progress): only an installed observer can throw
Throws == IF m_progressCallback THEN BOOLEAN ELSE {FALSE}

\* while (!m_shouldStop)
workerLoop(w) ==
    /\ ~crashed
    /\ wpc[w] = "loop"
    /\ wpc' = [wpc EXCEPT ![w] = IF m_shouldStop THEN "exited" ELSE "poll"]
    /\ lastCall' = NoHostCall
    /\ UNCHANGED <<qvars, mvars, wjob, wresult, wfailed, m_shouldStop,
                   m_initialized,
                   m_progressCallback, m_lastError, hostpc, hostjob, crashed,
                   njobs, submitted, cleanupCalled>>
    /\ UNCHANGED <<ledger, insertRaced, nonsched>>

\* workerThread, lines 574-580: take the front job under m_queueMutex
workerDequeue(w) ==
    /\ ~crashed
    /\ wpc[w] = "poll"
    /\ hostpc # "inserting"
    /\ m_transcriptionQueue # <<>>
    /\ wjob' = [wjob EXCEPT ![w] = Head(m_transcriptionQueue)]
    /\ m_transcriptionQueue' = Popped(m_transcriptionQueue)
    /\ ledger' = Dequeued(ledger, w)
    /\ UNCHANGED insertRaced
    /\ wpc' = [wpc EXCEPT ![w] = "start"]
    /\ lastCall' = NoHostCall
    /\ UNCHANGED <<m_activeJobs, m_completedJobs, mvars, wresult, wfailed,
                   m_shouldStop, m_initialized, m_progressCallback,
                   m_lastError, hostpc, hostjob, crashed, njobs, submitted,
                   cleanupCalled>>
    /\ UNCHANGED nonsched

\* workerThread, lines 582-585: nothing queued, sleep and go round
workerSleep(w) ==
    /\ ~crashed
    /\ wpc[w] = "poll"
    /\ hostpc # "inserting"
    /\ m_transcriptionQueue = <<>>
    /\ wpc' = [wpc EXCEPT ![w] = "loop"]
    /\ lastCall' = NoHostCall
    /\ UNCHANGED <<qvars, mvars, wjob, wresult, wfailed, m_shouldStop,
                   m_initialized,
                   m_progressCallback, m_lastError, hostpc, hostjob, crashed,
                   njobs, submitted, cleanupCalled>>
    /\ UNCHANGED <<ledger, insertRaced, nonsched>>

\* the record updateProgress leaves in the active map
Updated(rec, p) == [rec EXCEPT !.progress = p, !.status = "PROCESSING"]

\* WhisperTranscription::updateProgress called by worker w, which goes on at
\* next; an exception of the observer takes the worker to its catch when the
\* call is inside the try, and ends the process when it is not
updateProgress(w, p, next, inTry) ==
    \E found \in Find(wjob[w]), throws \in Throws :
        /\ m_activeJobs' = IF found
                           THEN [m_activeJobs EXCEPT ![wjob[w]] = Updated(@, p)]
                           ELSE m_activeJobs
        /\ wpc' = [wpc EXCEPT ![w] = IF found /\ throws /\ inTry THEN "catch"
                                     ELSE next]
        /\ crashed' = (found /\ throws /\ ~inTry)

\* what a step of worker w leaves alone besides the active map, its position
\* and the process
WorkerFrame ==
    /\ lastCall' = NoHostCall
    /\ UNCHANGED <<mvars, m_shouldStop, m_initialized, m_progressCallback,
                   hostpc, hostjob, njobs, submitted, cleanupCalled>>
    /\ UNCHANGED nonsched

\* workerThread, line 588: updateProgress(job->id, 0.0f, ...), outside the try
workerStart(w) ==
    /\ ~crashed
    /\ wpc[w] = "start"
    /\ updateProgress(w, P0, "try", FALSE)
    /\ UNCHANGED <<m_transcriptionQueue, m_completedJobs, wjob, wresult,
                   wfailed, m_lastError>>
    /\ WorkerFrame /\ UNCHANGED <<ledger, insertRaced>>

\* workerThread, line 598: updateProgress(job->id, 0.2f, ...); filePath is
\* empty for every job queueTranscription makes
workerProcessing(w) ==
    /\ ~crashed
    /\ wpc[w] = "try"
    /\ updateProgress(w, P20, "audio", TRUE)
    /\ UNCHANGED <<m_transcriptionQueue, m_completedJobs, wjob, wresult,
                   wfailed, m_lastError>>
    /\ WorkerFrame /\ UNCHANGED <<ledger, insertRaced>>

\* workerThread, line 599: result = processAudio(...); m_currentModel is not
\* looked at, and processAudio catches what is thrown inside it
workerProcessAudio(w) ==
    /\ ~crashed
    /\ wpc[w] = "audio"
    /\ \E voiced \in BOOLEAN, ok \in BOOLEAN :
          /\ wresult' = [wresult EXCEPT ![w] = processAudio(voiced, ok).result]
          /\ wfailed' = [wfailed EXCEPT ![w] = voiced /\ ~ok]
          /\ m_lastError' = setError(processAudio(voiced, ok))
    /\ wpc' = [wpc EXCEPT ![w] = "final"]
    /\ UNCHANGED <<qvars, wjob, crashed>>
    /\ WorkerFrame /\ UNCHANGED <<ledger, insertRaced>>

\* The same call of processAudio as the steps of the thread that makes it.
\* For a clip without voice processAudio returns before transcribeWithWhisper.
workerSkipModel(w) ==
    /\ ~crashed
    /\ wpc[w] = "audio"
    /\ wresult' = [wresult EXCEPT ![w] = processAudio(FALSE, TRUE).result]
    /\ wfailed' = [wfailed EXCEPT ![w] = FALSE]
    /\ wpc' = [wpc EXCEPT ![w] = "final"]
    /\ UNCHANGED <<qvars, wjob, m_lastError, crashed>>
    /\ WorkerFrame /\ UNCHANGED <<ledger, insertRaced>>

\* For a clip with voice the thread reaches whisper_full(m_currentModel, ...)
\* in transcribeWithWhisper; no lock is taken on the way.
workerEnterModel(w) ==
    /\ ~crashed
    /\ wpc[w] = "audio"
    /\ wpc' = [wpc EXCEPT ![w] = "model"]
    /\ UNCHANGED <<qvars, wjob, wresult, wfailed, m_lastError, crashed>>
    /\ WorkerFrame /\ UNCHANGED <<ledger, insertRaced>>

\* whisper_full returns and processAudio with it
workerLeaveModel(w) ==
    /\ ~crashed
    /\ wpc[w] = "model"
    /\ \E ok \in BOOLEAN :
          /\ wresult' = [wresult EXCEPT ![w] = processAudio(TRUE, ok).result]
          /\ wfailed' = [wfailed EXCEPT ![w] = ~ok]
          /\ m_lastError' = setError(processAudio(TRUE, ok))
    /\ wpc' = [wpc EXCEPT ![w] = "final"]
    /\ UNCHANGED <<qvars, wjob, crashed>>
    /\ WorkerFrame /\ UNCHANGED <<ledger, insertRaced>>

\* workerThread, line 602: updateProgress(job->id, 0.9f, ...)
workerFinalizing(w) ==
    /\ ~crashed
    /\ wpc[w] = "final"
    /\ updateProgress(w, P90, "complete", TRUE)
    /\ UNCHANGED <<m_transcriptionQueue, m_completedJobs, wjob, wresult,
                   wfailed, m_lastError>>
    /\ WorkerFrame /\ UNCHANGED <<ledger, insertRaced>>

\* the record completeJob stores
Completed(rec, result) ==
    [rec EXCEPT !.status = "COMPLETED", !.progress = P100, !.result = result]

\* a failJob that sets the status and forgets the message
Failed_NoMessage(rec, error) == [rec EXCEPT !.status = "ERROR"]

\* the record failJob stores
Failed(rec, error) == [rec EXCEPT !.status = "ERROR", !.errorMessage = error]

\* worker w moves to pc; at the top of its loop its locals are gone
GoTo(w, pc) ==
    /\ wpc' = [wpc EXCEPT ![w] = pc]
    /\ wjob' = [wjob EXCEPT ![w] = IF pc = "loop" THEN NoJob ELSE @]
    /\ wresult' = [wresult EXCEPT ![w] = IF pc = "loop" THEN "none" ELSE @]
    /\ wfailed' = [wfailed EXCEPT ![w] = IF pc = "loop" THEN FALSE ELSE @]

\* WhisperTranscription::completeJob called by worker w (line 603).  After
\* m_activeJobs.erase(it) the code evaluates *it->second through the erased
\* iterator: the build either goes on or the process dies there.  An
\* exception of the observer takes the worker to its catch.
completeJob(w) ==
    \E found \in Find(wjob[w]), throws \in Throws, dies \in BOOLEAN :
        IF found
        THEN /\ m_completedJobs' =
                   Put(m_completedJobs, wjob[w],
                       Completed(m_activeJobs[wjob[w]], wresult[w]))
             /\ m_activeJobs' = Erase(m_activeJobs, wjob[w])
             /\ ledger' = TerminalCallback(ledger, wjob[w],
                                           m_progressCallback /\ ~dies)
             /\ insertRaced' = (insertRaced \/ hostpc = "inserting")
             /\ crashed' = dies
             /\ IF dies THEN ~throws /\ UNCHANGED tvars
                ELSE GoTo(w, IF throws THEN "catch" ELSE "loop")
        ELSE /\ ~throws /\ ~dies
             /\ GoTo(w, "loop")
             /\ UNCHANGED <<m_activeJobs, m_completedJobs, crashed, ledger,
                            insertRaced>>

workerComplete(w) ==
    /\ ~crashed
    /\ wpc[w] = "complete"
    /\ completeJob(w)
    /\ UNCHANGED <<m_transcriptionQueue, m_lastError>>
    /\ WorkerFrame

\* WhisperTranscription::failJob called from the catch of worker w (line
\* 606); an exception of the observer leaves the handler and the thread
failJob(w) ==
    \E found \in Find(wjob[w]), throws \in Throws :
        IF found
        THEN /\ m_completedJobs' =
                   Put(m_completedJobs, wjob[w],
                       Failed(m_activeJobs[wjob[w]], "exception"))
             /\ m_activeJobs' = Erase(m_activeJobs, wjob[w])
             /\ ledger' = TerminalCallback(ledger, wjob[w],
                                           m_progressCallback)
             /\ insertRaced' = (insertRaced \/ hostpc = "inserting")
             /\ crashed' = throws
             /\ IF throws THEN UNCHANGED tvars ELSE GoTo(w, "loop")
        ELSE /\ ~throws
             /\ GoTo(w, "loop")
             /\ UNCHANGED <<m_activeJobs, m_completedJobs, crashed, ledger,
                            insertRaced>>

workerCatch(w) ==
    /\ ~crashed
    /\ wpc[w] = "catch"
    /\ failJob(w)
    /\ UNCHANGED <<m_transcriptionQueue, m_lastError>>
    /\ WorkerFrame

(***************************************************************************)
(* WhisperTranscriber: the model holder of the whisper binding.            *)
(***************************************************************************)
\* model paths a caller passes
Paths == {"a.bin", "b.bin", "c.bin"}

\* audio_data.empty() is true of "empty" only
AudioData == {"empty", "samples"}

NoReturn ==
    [op |-> "none", arg |-> "", success |-> FALSE, error |-> "",
     existed |-> FALSE, backend |-> FALSE]

\* WhisperTranscriber::WhisperTranscriber, on a disk without model files
TranscriberInit ==
    /\ files = {}
    /\ context_ = "null"
    /\ current_model_path_ = ""
    /\ model_loaded_ = FALSE
    /\ last_error_ = ""
    /\ returned = NoReturn

\* MockWhisper::whisper_init_from_file on a disk holding the files fs
whisper_init_from_file(path_model, fs) ==
    IF path_model \notin fs THEN "null" ELSE path_model

\* MockWhisper::whisper_full: -1 without a loaded context, else 0
whisper_full(ctx) == IF ctx = "null" THEN -1 ELSE 0

\* WhisperTranscriber::ValidateModelFile: a path without a file gets a mock
\* file written to it, and only a path that cannot be opened for writing is
\* rejected.  Gives the verdict and the files on disk afterwards.
ValidateModelFile(model_path, writable) ==
    IF model_path \notin files
    THEN IF writable
         THEN [ok |-> TRUE, files |-> files \cup {model_path}]
         ELSE [ok |-> FALSE, files |-> files]
    ELSE [ok |-> TRUE, files |-> files]

\* the members after WhisperTranscriber::UnloadModel
Unloaded ==
    [context_ |-> IF model_loaded_ THEN "null" ELSE context_,
     current_model_path_ |-> IF model_loaded_ THEN "" ELSE current_model_path_,
     model_loaded_ |-> FALSE]

\* WhisperTranscriber::LoadModel
LoadModel(model_path) ==
    \E writable \in BOOLEAN :
        LET v == ValidateModelFile(model_path, writable)
            ctx == whisper_init_from_file(model_path, v.files)
            error == IF ~v.ok THEN "Invalid model file"
                     ELSE IF ctx = "null" THEN "Failed to load model"
                     ELSE ""
        IN  /\ files' = v.files
            /\ context_' = IF v.ok THEN ctx ELSE Unloaded.context_
            /\ current_model_path_' = IF error = "" THEN model_path
                                      ELSE Unloaded.current_model_path_
            /\ model_loaded_' = (error = "")
            /\ last_error_' = IF error = "" THEN last_error_ ELSE error
            /\ returned' = [op |-> "LoadModel", arg |-> model_path,
                            success |-> (error = ""), error |-> error,
                            existed |-> (model_path \in files),
                            backend |-> FALSE]
            /\ UNCHANGED nontranscriber

\* WhisperTranscriber::UnloadModel
UnloadModel ==
    /\ context_' = Unloaded.context_
    /\ current_model_path_' = Unloaded.current_model_path_
    /\ model_loaded_' = Unloaded.model_loaded_
    /\ returned' = [NoReturn EXCEPT !.op = "UnloadModel", !.success = TRUE]
    /\ UNCHANGED <<files, last_error_>>
    /\ UNCHANGED nontranscriber

\* WhisperTranscriber::Transcribe
Transcribe(audio_data) ==
    LET called == model_loaded_ /\ audio_data # "empty"
        error == IF ~model_loaded_ THEN "Model not loaded"
                 ELSE IF audio_data = "empty" THEN "Empty audio data"
                 ELSE IF whisper_full(context_) # 0
                 THEN "Transcription failed with error code"
                 ELSE ""
    IN  /\ returned' = [op |-> "Transcribe", arg |-> audio_data,
                        success |-> (error = ""), error |-> error,
                        existed |-> FALSE, backend |-> called]
        /\ UNCHANGED <<files, context_, current_model_path_, model_loaded_,
                       last_error_>>
        /\ UNCHANGED nontranscriber

\* WhisperTranscriber::ClearError
ClearError ==
    /\ last_error_' = ""
    /\ returned' = [NoReturn EXCEPT !.op = "ClearError", !.success = TRUE]
    /\ UNCHANGED <<files, context_, current_model_path_, model_loaded_>>
    /\ UNCHANGED nontranscriber

\* the disk: a model file is put at path
CreateFile(path) ==
    /\ path \notin files
    /\ files' = files \cup {path}
    /\ returned' = NoReturn
    /\ UNCHANGED <<context_, current_model_path_, model_loaded_, last_error_>>
    /\ UNCHANGED nontranscriber

\* the disk: the file at path is deleted
RemoveFile(path) ==
    /\ path \in files
    /\ files' = files \ {path}
    /\ returned' = NoReturn
    /\ UNCHANGED <<context_, current_model_path_, model_loaded_, last_error_>>
    /\ UNCHANGED nontranscriber

(***************************************************************************)
(* WASAPIRecorder (native/wasapi_recorder.cpp): processAudioData, the      *)
(* processing chain and the queue of captured buffers.  A float is a       *)
(* fixed-point number in units of 1/Unit, and a product or quotient is     *)
(* rounded toward zero.                                                    *)
(***************************************************************************)
Unit == 1000
\* the m_gainLevel of the constructor, 1.0f, and the gains a caller sets
GainOne == 10
Gains == {GainOne, 2 * GainOne}
\* VAD_THRESHOLD = 0.01f
VAD_THRESHOLD == 10
\* 16-bit PCM values a device delivers: silence, a quiet and a loud sample of
\* either sign
PcmValues == {0, 164, 16384, -16384}
\* channel counts of the device mix format
DeviceChannels == {1, 2}

Abs(x) == IF x < 0 THEN -x ELSE x
Max(a, b) == IF a > b THEN a ELSE b

\* v * num / den
MulDiv(v, num, den) ==
    IF v >= 0 THEN (v * num) \div den ELSE -(((-v) * num) \div den)

RECURSIVE SqrtBetween(_, _, _)
SqrtBetween(n, lo, hi) ==
    IF lo >= hi THEN lo
    ELSE LET mid == (lo + hi + 1) \div 2
         IN  IF mid * mid <= n THEN SqrtBetween(n, mid, hi)
             ELSE SqrtBetween(n, lo, mid - 1)

\* std::sqrt
Sqrt(n) == SqrtBetween(n, 0, 4 * Unit)

RECURSIVE SumSq(_)
SumSq(samples) ==
    IF samples = <<>> THEN 0
    ELSE Head(samples) * Head(samples) + SumSq(Tail(samples))

\* sqrt(sum of squares / count), as updateAudioLevels, detectVoiceActivity
\* and applyAutomaticGainControl compute it
Rms(samples) == Sqrt(SumSq(samples) \div Len(samples))

RECURSIVE Peak(_)
Peak(samples) ==
    IF samples = <<>> THEN 0
    ELSE Max(Abs(Head(samples)), Peak(Tail(samples)))

Scaled(samples, num, den) ==
    [i \in 1..Len(samples) |-> MulDiv(samples[i], num, den)]

\* the conversion loop of processAudioData: pcmData[i] / 32768.0f, or zeros
\* for a packet flagged silent
ToFloat_FlagIgnored(data, silence) ==
    [i \in 1..Len(data) |-> MulDiv(data[i], Unit, 32768)]

ToFloat(data, silence) ==
    [i \in 1..Len(data) |->
        IF silence THEN 0 ELSE MulDiv(data[i], Unit, 32768)]

\* WASAPIRecorder::applyNoiseSupression: threshold 0.01f, ratio 0.1f
applyNoiseSupression(samples) ==
    [i \in 1..Len(samples) |->
        IF Abs(samples[i]) < 10 THEN MulDiv(samples[i], 1, 10)
        ELSE samples[i]]

\* WASAPIRecorder::applyAutomaticGainControl: target 0.3f, gain within
\* 0.1f..4.0f, applied when the rms is above 0.001f
applyAutomaticGainControl(samples) ==
    LET rms == Rms(samples)
    IN  IF rms > 1
        THEN Scaled(samples, Max(100, Min(4000, (300 * 1000) \div rms)), 1000)
        ELSE samples

\* WASAPIRecorder::applyEchoCancellation: echoAttenuation 0.5f
applyEchoCancellation(samples) == Scaled(samples, 1, 2)

\* WASAPIRecorder::applyAudioProcessing
applyAudioProcessing(samples) ==
    LET a == IF m_gainLevel # GainOne
             THEN Scaled(samples, m_gainLevel, GainOne) ELSE samples
        b == IF m_noiseSuppressionEnabled THEN applyNoiseSupression(a) ELSE a
        c == IF m_agcEnabled THEN applyAutomaticGainControl(b) ELSE b
    IN  IF m_echoCancellationEnabled THEN applyEchoCancellation(c) ELSE c

\* no updateAudioLevels is between its load and its store of m_peakLevel
NotLoaded == -1

\* WASAPIRecorder::updateAudioLevels: m_levelSmoothingFactor is 0.9f; the
\* new peak is std::max(m_peakLevel.load(), peak), stored afterwards
updateAudioLevels(samples) ==
    [level |-> (m_currentLevel * 9 + Rms(samples) * 1) \div 10,
     peak |-> Max(IF peakLoaded = NotLoaded THEN m_peakLevel ELSE peakLoaded,
                  Peak(samples))]

\* WASAPIRecorder::detectVoiceActivity: the new m_vadLevel, with
\* m_vadSmoothingFactor 0.95f; the decision is m_vadLevel > m_vadThreshold
WASAPIRecorder_detectVoiceActivity(samples) ==
    (m_vadLevel * 95 + Rms(samples) * 5) \div 100

\* samples with their place in the captured stream
Numbered(samples, before) ==
    [i \in 1..Len(samples) |-> [k |-> before + i, v |-> samples[i]]]

NoFrame ==
    [n |-> 0, voice |-> FALSE, observer |-> FALSE, called |-> FALSE,
     full |-> FALSE, samples |-> <<>>]

\* WASAPIRecorder::WASAPIRecorder, the members of the processing chain; the
\* constructor's format is stereo, initialize binds the device's
PipelineInit(channels) ==
    /\ m_audioQueue = <<>>
    /\ bufferOverruns = 0
    /\ m_currentLevel = 0
    /\ m_peakLevel = 0
    /\ m_vadLevel = 0
    /\ m_gainLevel = GainOne
    /\ m_noiseSuppressionEnabled = FALSE
    /\ m_agcEnabled = FALSE
    /\ m_echoCancellationEnabled = FALSE
    /\ m_audioDataCallback = FALSE
    /\ nChannels \in channels
    /\ nframes = 0
    /\ fedZero = TRUE
    /\ captured = <<>>
    /\ evicted = {}
    /\ evictions = 0
    /\ delivered = <<>>
    /\ handed = <<>>
    /\ frame = NoFrame
    /\ endpointBuffer = <<>>
    /\ peakLoaded = NotLoaded
    /\ resetAt = 0

\* the test of processAudioData before it pushes: at m_maxQueueSize the
\* oldest buffer goes
QueueFull_Late(queue) == Len(queue) > MaxQueueSize

QueueFull(queue) == Len(queue) >= MaxQueueSize

\* the last statement of processAudioData: whether m_audioDataCallback is
\* called with the buffer
Notified_Always(observer, voiceDetected) == observer

Notified(observer, voiceDetected) == observer /\ voiceDetected

\* WASAPIRecorder::processAudioData(data, frameCount, silence), with data
\* holding frameCount * nChannels PCM values
processAudioData(data, silence) ==
    LET channelCount == nChannels
        frameCount == Len(data) \div channelCount
        samples == applyAudioProcessing(ToFloat(data, silence))
        levels == updateAudioLevels(samples)
        vad == WASAPIRecorder_detectVoiceActivity(samples)
        voiceDetected == vad > VAD_THRESHOLD
        buffer == [samples |-> Numbered(samples, Len(captured)),
                   channelCount |-> channelCount,
                   frameCount |-> frameCount]
        full == QueueFull(m_audioQueue)
    IN  /\ m_currentLevel' = levels.level
        /\ m_peakLevel' = levels.peak
        /\ m_vadLevel' = vad
        /\ m_audioQueue' = Append(IF full THEN Tail(m_audioQueue)
                                  ELSE m_audioQueue, buffer)
        /\ bufferOverruns' = IF full THEN bufferOverruns + 1
                             ELSE bufferOverruns
        /\ evictions' = IF full THEN evictions + 1 ELSE evictions
        /\ evicted' = IF full
                      THEN evicted \cup
                           {Head(m_audioQueue).samples[i].k :
                               i \in 1..Len(Head(m_audioQueue).samples)}
                      ELSE evicted
        /\ captured' = captured \o buffer.samples
        /\ nframes' = nframes + 1
        /\ fedZero' = (fedZero /\ (silence \/ \A i \in 1..Len(data) :
                                                   data[i] = 0))
        /\ frame' = [n |-> nframes + 1, voice |-> voiceDetected,
                     observer |-> m_audioDataCallback,
                     called |-> Notified(m_audioDataCallback, voiceDetected),
                     full |-> full, samples |-> buffer.samples]
        /\ peakLoaded' = NotLoaded
        /\ UNCHANGED <<delivered, handed, resetAt>>

\* the partial copy of getAudioData: the copied samples are erased from the
\* front buffer and its frameCount is reduced
Rest_NotErased(buffer, framesToCopy) ==
    [buffer EXCEPT !.frameCount = @ - framesToCopy]

Rest(buffer, framesToCopy) ==
    [buffer EXCEPT
       !.samples = SubSeq(@, framesToCopy * buffer.channelCount + 1, Len(@)),
       !.frameCount = @ - framesToCopy]

\* the while loop of getAudioData: buffers are taken from the front until
\* maxFrames frames are copied; a buffer that does not fit whole is cut and
\* its rest stays at the front
RECURSIVE Drain(_, _, _, _)
Drain(queue, maxFrames, totalFrames, result) ==
    IF queue = <<>> \/ ~(maxFrames = 0 \/ totalFrames < maxFrames)
    THEN [queue |-> queue, result |-> result]
    ELSE LET buffer == Head(queue)
             framesToCopy ==
                 IF maxFrames > 0
                    /\ totalFrames + buffer.frameCount > maxFrames
                 THEN maxFrames - totalFrames
                 ELSE buffer.frameCount
             samplesToCopy == framesToCopy * buffer.channelCount
             copied == result \o SubSeq(buffer.samples, 1, samplesToCopy)
         IN  IF framesToCopy = buffer.frameCount
             THEN Drain(Tail(queue), maxFrames, totalFrames + framesToCopy,
                        copied)
             ELSE [queue |-> <<Rest(buffer, framesToCopy)>> \o Tail(queue),
                   result |-> copied]

\* packets of the capture loop: one frame of loud samples
LoopPackets == {[i \in 1..nChannels |-> 16384]}

\* what one more turn of the capture loop does to the queue, when it gets a
\* packet
OneMoreTurn ==
    \/ UNCHANGED pvars
    \/ \E data \in LoopPackets :
          /\ nframes < MaxLoopFrames
          /\ processAudioData(data, FALSE)
          /\ UNCHANGED endpointBuffer

(***************************************************************************)
(* WASAPIRecorder (native/wasapi_recorder.cpp): the recording session, its *)
(* capture thread and the queue of captured buffers.                       *)
(***************************************************************************)
NoRecCall ==
    [op |-> "none", ret |-> FALSE, recording |-> FALSE, paused |-> FALSE]

\* the record of a returned call: its name, its result and the flags it
\* found when it was made
RecCall(op, ret) ==
    [op |-> op, ret |-> ret, recording |-> m_isRecording,
     paused |-> m_isPaused]

\* the two WASAPIRecorder classes of the repository, by directory
RecorderClasses == {"native", "audio-recorder"}

\* WASAPIRecorder::WASAPIRecorder of native/wasapi_recorder.cpp
RecorderInit ==
    /\ m_device = FALSE
    /\ m_audioClient = "null"
    /\ m_captureClient = FALSE
    /\ m_isRecording = FALSE
    /\ m_isPaused = FALSE
    /\ r_shouldStop = FALSE
    /\ r_lastError = ""
    /\ m_recordingThread = "none"
    /\ r_crashed = FALSE
    /\ recCall = NoRecCall

\* how far WASAPIRecorder::initialize gets before a COM call fails
InitStages == {"com", "endpoint", "activate", "client", "ok"}

\* WASAPIRecorder::initialize followed by initializeAudioClient.  Called
\* while the capture thread runs, it releases the clients the thread is
\* using, and the process may die.
WASAPIRecorder_initialize ==
    /\ ~r_crashed
    /\ recorder = "native"
    /\ \E stage \in InitStages, dies \in BOOLEAN :
          /\ m_device' = CASE stage = "com" -> m_device
                           [] stage = "endpoint" -> FALSE
                           [] OTHER -> TRUE
          /\ m_audioClient' = CASE stage \in {"com", "endpoint"} -> m_audioClient
                                [] stage = "activate" -> "null"
                                [] OTHER -> "stopped"
          /\ m_captureClient' = CASE stage \in {"com", "endpoint"} ->
                                        m_captureClient
                                  [] stage = "ok" -> TRUE
                                  [] OTHER -> FALSE
          /\ r_lastError' = IF stage = "ok" THEN r_lastError
                            ELSE "Failed to initialize"
          /\ r_crashed' = (/\ dies
                           /\ m_recordingThread = "running"
                           /\ stage \notin {"com", "endpoint"})
          /\ nChannels' \in IF stage \in {"client", "ok"}
                             THEN DeviceChannels \cup {nChannels}
                             ELSE {nChannels}
          /\ recCall' = RecCall("initialize", stage = "ok")
    /\ UNCHANGED <<m_isRecording, m_isPaused, r_shouldStop,
                   m_recordingThread, pvars>>
    /\ UNCHANGED <<m_gainLevel, m_noiseSuppressionEnabled, m_agcEnabled,
                   m_echoCancellationEnabled, m_audioDataCallback>>
    /\ UNCHANGED nonrecorder

\* a startRecording without the test of m_isRecording: the stream and the
\* flags are set again
startRecording_Restarts ==
    /\ m_audioClient' = "started"
    /\ r_shouldStop' = FALSE
    /\ m_isRecording' = TRUE
    /\ m_isPaused' = FALSE
    /\ m_recordingThread' = "running"
    /\ recCall' = RecCall("startRecording", TRUE)
    /\ UNCHANGED r_lastError

\* line 177-179 of startRecording: return true, nothing touched
startRecording_AlreadyRecording ==
    /\ recCall' = RecCall("startRecording", TRUE)
    /\ UNCHANGED <<m_audioClient, m_isRecording, m_isPaused, r_shouldStop,
                   r_lastError, m_recordingThread>>

\* WASAPIRecorder::startRecording; started: m_audioClient->Start() succeeded
startRecording ==
    /\ ~r_crashed
    /\ recorder = "native"
    /\ \E started \in BOOLEAN :
          IF m_isRecording
          THEN startRecording_AlreadyRecording
          ELSE IF ~m_device \/ m_audioClient = "null"
          THEN /\ r_lastError' = "Audio client not initialized"
               /\ recCall' = RecCall("startRecording", FALSE)
               /\ UNCHANGED <<m_audioClient, m_isRecording, m_isPaused,
                              r_shouldStop, m_recordingThread>>
          ELSE IF ~started
          THEN /\ r_lastError' = "Failed to start audio client"
               /\ recCall' = RecCall("startRecording", FALSE)
               /\ UNCHANGED <<m_audioClient, m_isRecording, m_isPaused,
                              r_shouldStop, m_recordingThread>>
          ELSE /\ m_audioClient' = "started"
               /\ r_shouldStop' = FALSE
               /\ m_isRecording' = TRUE
               /\ m_isPaused' = FALSE
               /\ m_recordingThread' = "running"
               /\ recCall' = RecCall("startRecording", TRUE)
               /\ UNCHANGED r_lastError
    /\ UNCHANGED <<m_device, m_captureClient, pvars, cfgvars, r_crashed>>
    /\ UNCHANGED nonrecorder

\* WASAPIRecorder::stopRecording.  The join returns once the capture thread
\* has seen m_shouldStop; until then the thread may add one more buffer.
stopRecording ==
    /\ ~r_crashed
    /\ recorder = "native"
    /\ IF ~m_isRecording
       THEN UNCHANGED <<m_audioClient, m_isRecording, r_shouldStop,
                        m_recordingThread, pvars>>
       ELSE /\ r_shouldStop' = TRUE
            /\ m_isRecording' = FALSE
            /\ m_recordingThread' = "none"
            /\ IF m_recordingThread = "running" /\ ~m_isPaused
                  /\ m_captureClient
               THEN OneMoreTurn
               ELSE UNCHANGED pvars
            /\ m_audioClient' = IF m_audioClient = "null" THEN "null"
                                ELSE "stopped"
    /\ recCall' = RecCall("stopRecording", TRUE)
    /\ UNCHANGED <<m_device, m_captureClient, m_isPaused, r_lastError,
                   cfgvars, r_crashed>>
    /\ UNCHANGED nonrecorder

\* The same call as the steps of the control thread that makes it and of
\* the capture thread it waits for.  The control thread is inside
\* stopRecording, at the join of line 212:
Joining == r_shouldStop /\ ~m_isRecording /\ m_recordingThread # "none"

\* stopRecording, lines 203-208: m_shouldStop = true; m_isRecording = false
stopRecordingSignal ==
    /\ ~r_crashed
    /\ recorder = "native"
    /\ m_isRecording
    /\ r_shouldStop' = TRUE
    /\ m_isRecording' = FALSE
    /\ recCall' = NoRecCall
    /\ UNCHANGED <<m_device, m_audioClient, m_captureClient, m_isPaused,
                   r_lastError, m_recordingThread, pvars, cfgvars, r_crashed>>
    /\ UNCHANGED nonrecorder

\* recordingLoop once m_shouldStop is set: the thread finishes the turn it
\* is in, which may add one more buffer, finds the loop condition of line
\* 320 false and returns
recordingLoopExit ==
    /\ ~r_crashed
    /\ recorder = "native"
    /\ m_recordingThread = "running"
    /\ r_shouldStop
    /\ IF ~m_isPaused /\ m_captureClient
       THEN OneMoreTurn
       ELSE UNCHANGED pvars
    /\ m_recordingThread' = "finished"
    /\ recCall' = NoRecCall
    /\ UNCHANGED <<m_device, m_audioClient, m_captureClient, m_isRecording,
                   m_isPaused, r_shouldStop, r_lastError, cfgvars, r_crashed>>
    /\ UNCHANGED nonrecorder

\* stopRecording, lines 211-220: the join returns, m_audioClient->Stop()
\* and Reset(), which empties the endpoint buffer
stopRecordingJoined ==
    /\ ~r_crashed
    /\ recorder = "native"
    /\ Joining
    /\ m_recordingThread = "finished"
    /\ m_recordingThread' = "none"
    /\ m_audioClient' = IF m_audioClient = "null" THEN "null" ELSE "stopped"
    /\ endpointBuffer' = IF m_audioClient = "null" THEN endpointBuffer
                         ELSE <<>>
    /\ recCall' = [op |-> "stopRecording", ret |-> TRUE, recording |-> TRUE,
                   paused |-> m_isPaused]
    /\ UNCHANGED <<m_device, m_captureClient, m_isRecording, m_isPaused,
                   r_shouldStop, r_lastError, processed, peakLoaded, resetAt,
                   cfgvars, r_crashed>>
    /\ UNCHANGED nonrecorder

\* WASAPIRecorder::pauseRecording
pauseRecording ==
    /\ ~r_crashed
    /\ recorder = "native"
    /\ IF ~m_isRecording \/ m_isPaused
       THEN /\ recCall' = RecCall("pauseRecording", FALSE)
            /\ UNCHANGED m_isPaused
       ELSE /\ m_isPaused' = TRUE
            /\ recCall' = RecCall("pauseRecording", TRUE)
    /\ UNCHANGED <<m_device, m_audioClient, m_captureClient, m_isRecording,
                   r_shouldStop, r_lastError, m_recordingThread,
                   pvars, cfgvars, r_crashed>>
    /\ UNCHANGED nonrecorder

\* a resumeRecording that tests m_isPaused only
resumeRecording_PausedOnly ==
    /\ ~r_crashed
    /\ recorder = "native"
    /\ IF ~m_isPaused
       THEN /\ recCall' = RecCall("resumeRecording", FALSE)
            /\ UNCHANGED m_isPaused
       ELSE /\ m_isPaused' = FALSE
            /\ recCall' = RecCall("resumeRecording", TRUE)
    /\ UNCHANGED <<m_device, m_audioClient, m_captureClient, m_isRecording,
                   r_shouldStop, r_lastError, m_recordingThread,
                   pvars, cfgvars, r_crashed>>
    /\ UNCHANGED nonrecorder

\* WASAPIRecorder::resumeRecording
resumeRecording ==
    /\ ~r_crashed
    /\ recorder = "native"
    /\ IF ~m_isRecording \/ ~m_isPaused
       THEN /\ recCall' = RecCall("resumeRecording", FALSE)
            /\ UNCHANGED m_isPaused
       ELSE /\ m_isPaused' = FALSE
            /\ recCall' = RecCall("resumeRecording", TRUE)
    /\ UNCHANGED <<m_device, m_audioClient, m_captureClient, m_isRecording,
                   r_shouldStop, r_lastError, m_recordingThread,
                   pvars, cfgvars, r_crashed>>
    /\ UNCHANGED nonrecorder

\* WASAPIRecorder::getAudioBuffer
getAudioBuffer ==
    /\ ~r_crashed
    /\ recorder = "native"
    /\ m_audioQueue' = IF m_audioQueue = <<>> THEN <<>>
                       ELSE Tail(m_audioQueue)
    /\ handed' = IF m_audioQueue = <<>> THEN <<>>
                 ELSE Head(m_audioQueue).samples
    /\ delivered' = delivered \o handed'
    /\ recCall' = RecCall("getAudioBuffer", m_audioQueue # <<>>)
    /\ UNCHANGED <<bufferOverruns, m_currentLevel, m_peakLevel, m_vadLevel,
                   nframes, fedZero, captured, evicted, evictions, frame,
                   endpointBuffer, peakLoaded, resetAt>>
    /\ UNCHANGED <<m_device, m_audioClient, m_captureClient, m_isRecording,
                   m_isPaused, r_shouldStop, r_lastError, m_recordingThread,
                   cfgvars, r_crashed>>
    /\ UNCHANGED nonrecorder

\* WASAPIRecorder::cleanup: stopRecording(), then every interface released
WASAPIRecorder_cleanup ==
    /\ ~r_crashed
    /\ recorder = "native"
    /\ m_isRecording' = FALSE
    /\ r_shouldStop' = (m_isRecording \/ r_shouldStop)
    /\ m_recordingThread' = IF m_isRecording THEN "none"
                            ELSE m_recordingThread
    /\ IF m_isRecording /\ m_recordingThread = "running" /\ ~m_isPaused
          /\ m_captureClient
       THEN OneMoreTurn
       ELSE UNCHANGED pvars
    /\ m_device' = FALSE
    /\ m_audioClient' = "null"
    /\ m_captureClient' = FALSE
    /\ recCall' = RecCall("cleanup", TRUE)
    /\ UNCHANGED <<m_isPaused, r_lastError, cfgvars, r_crashed>>
    /\ UNCHANGED nonrecorder

\* WASAPIRecorder::recordingLoop, one turn of the while loop that captures a
\* packet: processAudioData puts an AudioBuffer into the queue.  A packet is
\* its PCM data and the AUDCLNT_BUFFERFLAGS_SILENT flag.
recordingLoopTurn(packets, bound) ==
    /\ ~r_crashed
    /\ recorder = "native"
    /\ m_recordingThread = "running"
    /\ ~r_shouldStop
    /\ ~m_isPaused
    /\ m_captureClient
    /\ nframes < bound
    /\ \E packet \in packets : processAudioData(packet.data, packet.silence)
    /\ UNCHANGED endpointBuffer
    /\ recCall' = NoRecCall
    /\ UNCHANGED <<m_device, m_audioClient, m_captureClient, m_isRecording,
                   m_isPaused, r_shouldStop, r_lastError, m_recordingThread,
                   cfgvars, r_crashed>>
    /\ UNCHANGED nonrecorder

recordingLoopCapture ==
    recordingLoopTurn({[data |-> d, silence |-> FALSE] : d \in LoopPackets},
                      MaxLoopFrames)

\* packets of one to MaxPacketFrames frames
QueuePackets ==
    {[data |-> [i \in 1..(f * nChannels) |-> 16384], silence |-> FALSE] :
        f \in 1..MaxPacketFrames}

recordingLoopQueue == recordingLoopTurn(QueuePackets, MaxQueueFrames)

\* A packet the device captured: one frame.  Its sample tells whether the
\* session was paused when it was captured, -16384 if it was and 16384 if
\* not, so that the two kinds can be told apart wherever they end up.
StreamPacket(paused) ==
    [i \in 1..nChannels |-> IF paused THEN -16384 ELSE 16384]

\* the audio engine puts the packet it has captured into the endpoint buffer
\* of a started stream, whatever the capture thread is doing
endpointCapture ==
    /\ ~r_crashed
    /\ recorder = "native"
    /\ m_audioClient = "started"
    /\ nframes + Len(endpointBuffer) < MaxStreamPackets
    /\ endpointBuffer' = Append(endpointBuffer, StreamPacket(m_isPaused))
    /\ recCall' = NoRecCall
    /\ UNCHANGED <<m_device, m_audioClient, m_captureClient, m_isRecording,
                   m_isPaused, r_shouldStop, r_lastError, m_recordingThread,
                   processed, peakLoaded, resetAt, cfgvars, r_crashed>>
    /\ UNCHANGED nonrecorder

\* WASAPIRecorder::recordingLoop, one turn of the loop from the return of
\* WaitForSingleObject (readiness or timeout) to the next wait, lines
\* 321-356: while paused Sleep(10) and continue; else GetNextPacketSize, and
\* for a packet GetBuffer, processAudioData and ReleaseBuffer, once
recordingLoopWake ==
    /\ ~r_crashed
    /\ recorder = "native"
    /\ m_recordingThread = "running"
    /\ ~r_shouldStop
    /\ m_captureClient
    /\ IF m_isPaused \/ endpointBuffer = <<>>
       THEN UNCHANGED pvars
       ELSE /\ processAudioData(Head(endpointBuffer), FALSE)
            /\ endpointBuffer' = Tail(endpointBuffer)
    /\ recCall' = NoRecCall
    /\ UNCHANGED <<m_device, m_audioClient, m_captureClient, m_isRecording,
                   m_isPaused, r_shouldStop, r_lastError, m_recordingThread,
                   cfgvars, r_crashed>>
    /\ UNCHANGED nonrecorder

\* WASAPIRecorder::getAudioData(maxFrames)
getAudioData(maxFrames) ==
    /\ ~r_crashed
    /\ recorder = "native"
    /\ LET drained == Drain(m_audioQueue, maxFrames, 0, <<>>)
       IN  /\ m_audioQueue' = drained.queue
           /\ handed' = drained.result
           /\ delivered' = delivered \o drained.result
    /\ recCall' = RecCall("getAudioData", TRUE)
    /\ UNCHANGED <<bufferOverruns, m_currentLevel, m_peakLevel, m_vadLevel,
                   nframes, fedZero, captured, evicted, evictions, frame,
                   endpointBuffer, peakLoaded, resetAt>>
    /\ UNCHANGED <<m_device, m_audioClient, m_captureClient, m_isRecording,
                   m_isPaused, r_shouldStop, r_lastError, m_recordingThread,
                   cfgvars, r_crashed>>
    /\ UNCHANGED nonrecorder

\* getAudioData() with its default argument
getAudioDataAll == getAudioData(0)

getAudioDataSome == \E maxFrames \in 0..MaxPacketFrames : getAudioData(maxFrames)

\* packets of one frame, every channel with the same PCM value
LevelPackets ==
    {[data |-> [i \in 1..nChannels |-> v], silence |-> quiet] :
        v \in PcmValues, quiet \in BOOLEAN}

recordingLoopLevels == recordingLoopTurn(LevelPackets, MaxFrames)

\* packets of one frame of silence: zeros, or a packet flagged silent
SilencePackets ==
    {[data |-> [i \in 1..nChannels |-> 0], silence |-> FALSE],
     [data |-> [i \in 1..nChannels |-> 16384], silence |-> TRUE]}

recordingLoopSilence == recordingLoopTurn(SilencePackets, MaxFrames)

\* the inline setters of the class and resetPeakLevel: one assignment each
Setter(assignment) ==
    /\ ~r_crashed
    /\ recorder = "native"
    /\ assignment
    /\ recCall' = NoRecCall
    /\ UNCHANGED <<m_device, m_audioClient, m_captureClient, m_isRecording,
                   m_isPaused, r_shouldStop, r_lastError, m_recordingThread,
                   r_crashed>>
    /\ UNCHANGED nonrecorder

setGainLevel ==
    \E gain \in Gains :
       Setter(/\ m_gainLevel' = gain
              /\ UNCHANGED <<pvars, m_noiseSuppressionEnabled, m_agcEnabled,
                             m_echoCancellationEnabled, m_audioDataCallback,
                             nChannels>>)

enableNoiseSupression ==
    \E enable \in BOOLEAN :
       Setter(/\ m_noiseSuppressionEnabled' = enable
              /\ UNCHANGED <<pvars, m_gainLevel, m_agcEnabled,
                             m_echoCancellationEnabled, m_audioDataCallback,
                             nChannels>>)

enableAutomaticGainControl ==
    \E enable \in BOOLEAN :
       Setter(/\ m_agcEnabled' = enable
              /\ UNCHANGED <<pvars, m_gainLevel, m_noiseSuppressionEnabled,
                             m_echoCancellationEnabled, m_audioDataCallback,
                             nChannels>>)

enableEchoCancellation ==
    \E enable \in BOOLEAN :
       Setter(/\ m_echoCancellationEnabled' = enable
              /\ UNCHANGED <<pvars, m_gainLevel, m_noiseSuppressionEnabled,
                             m_agcEnabled, m_audioDataCallback, nChannels>>)

\* setAudioDataCallback with an observer or with an empty function
setAudioDataCallback ==
    \E callback \in BOOLEAN :
       Setter(/\ m_audioDataCallback' = callback
              /\ UNCHANGED <<pvars, m_gainLevel, m_noiseSuppressionEnabled,
                             m_agcEnabled, m_echoCancellationEnabled,
                             nChannels>>)

\* WASAPIRecorder::resetPeakLevel: m_peakLevel = 0.0f
resetPeakLevel ==
    Setter(/\ m_peakLevel' = 0
           /\ resetAt' = Len(captured)
           /\ UNCHANGED <<m_audioQueue, bufferOverruns, m_currentLevel,
                          m_vadLevel, nframes, fedZero, captured, evicted,
                          evictions, delivered, handed, frame, endpointBuffer,
                          peakLoaded, cfgvars>>)

\* WASAPIRecorder::updateAudioLevels on the capture thread, line 430 up to
\* the return of m_peakLevel.load(): the value is held for std::max, and
\* the store of the result is a later step of the same turn
updateAudioLevelsLoad ==
    /\ ~r_crashed
    /\ recorder = "native"
    /\ m_recordingThread = "running"
    /\ ~r_shouldStop
    /\ ~m_isPaused
    /\ m_captureClient
    /\ nframes < MaxFrames
    /\ peakLoaded = NotLoaded
    /\ peakLoaded' = m_peakLevel
    /\ recCall' = NoRecCall
    /\ UNCHANGED <<m_device, m_audioClient, m_captureClient, m_isRecording,
                   m_isPaused, r_shouldStop, r_lastError, m_recordingThread,
                   processed, endpointBuffer, resetAt, cfgvars, r_crashed>>
    /\ UNCHANGED nonrecorder

\* WASAPIRecorder::clearError
WASAPIRecorder_clearError ==
    /\ ~r_crashed
    /\ recorder = "native"
    /\ r_lastError' = ""
    /\ recCall' = RecCall("clearError", TRUE)
    /\ UNCHANGED <<m_device, m_audioClient, m_captureClient, m_isRecording,
                   m_isPaused, r_shouldStop, m_recordingThread, pvars,
                   cfgvars, r_crashed>>
    /\ UNCHANGED nonrecorder

\* the members of a session after initialize and startRecording succeeded
RecordingStarted ==
    /\ m_device = TRUE
    /\ m_audioClient = "started"
    /\ m_captureClient = TRUE
    /\ m_isRecording = TRUE
    /\ m_isPaused = FALSE
    /\ r_shouldStop = FALSE
    /\ r_lastError = ""
    /\ m_recordingThread = "running"
    /\ r_crashed = FALSE
    /\ recCall = NoRecCall

\* WASAPIRecorder::recordingLoop leaving on its own: no event handle, or a
\* failed wait (lines 306-316, 323-325).  m_isRecording stays as it is.
recordingLoopBreak ==
    /\ ~r_crashed
    /\ recorder = "native"
    /\ m_recordingThread = "running"
    /\ ~r_shouldStop
    /\ m_recordingThread' = "finished"
    /\ recCall' = NoRecCall
    /\ UNCHANGED <<m_device, m_audioClient, m_captureClient, m_isRecording,
                   m_isPaused, r_shouldStop, r_lastError, pvars, cfgvars,
                   r_crashed>>
    /\ UNCHANGED nonrecorder

(***************************************************************************)
(* WASAPIRecorder (audio-recorder/wasapi_recorder.cpp): the recording      *)
(* session that captures into a CircularBuffer.                            *)
(***************************************************************************)
NoCapCall == [op |-> "none", ret |-> FALSE, recording |-> FALSE]

\* the record of a returned call: its name, its result and the recording_
\* flag it found when it was made
CapCall(op, ret) == [op |-> op, ret |-> ret, recording |-> recording_]

\* the WAVEFORMATEX that Initialize(sampleRate, channels, bitsPerSample)
\* fills in
Format(sampleRate, channels, bitsPerSample) ==
    [nChannels |-> channels,
     nSamplesPerSec |-> sampleRate,
     wBitsPerSample |-> bitsPerSample,
     nBlockAlign |-> (channels * bitsPerSample) \div 8,
     nAvgBytesPerSec |-> sampleRate * ((channels * bitsPerSample) \div 8)]

\* the default arguments of Initialize, and the formats a caller asks for
DefaultFormat == Format(16000, 1, 16)
Formats == {DefaultFormat, Format(44100, 2, 16)}

\* no file at the path SaveToWAV and ReadWAVFile are given
NoFile == [exists |-> FALSE, bytes |-> <<>>]

\* no ReadWAVFile call yet
NoRead == [op |-> "none", ret |-> FALSE, sample_rate |-> 0,
           size |-> 0, fill |-> 0]

\* WASAPIRecorder::WASAPIRecorder, for each class that can be built
CaptureInit(classes) ==
    /\ recorder \in classes
    /\ initialized_ = FALSE
    /\ recording_ = FALSE
    /\ audioClient_ = "null"
    /\ recordingThread_ = "none"
    /\ lastError_ = ""
    /\ capCall = NoCapCall
    /\ audioFormat_ = Format(0, 0, 0)
    /\ wavFile = NoFile
    /\ savepc = "idle"
    /\ saveAvailable = 0
    /\ wavRead = NoRead

\* audioBuffer_->Write(data, dataSize)
AudioBufferWrite(data) ==
    LET r == Write(Cur, data)
    IN  /\ SetBuffer(r.st)
        /\ written' = IF r.ret THEN written \o data ELSE written
        /\ sinceClear' = IF r.ret THEN sinceClear \o data ELSE sinceClear
        /\ dropped' = (dropped \/ (r.ret /\
               AvailableData(r.st) < AvailableData(Cur) + Len(data)))
        /\ last' = [op |-> "Write", n |-> Len(data), data |-> data,
                    ret |-> r.ret, cnt |-> 0, out |-> <<>>, pre |-> Cur]
        /\ UNCHANGED <<size_, mutex_, readOut, call, lin, done>>

\* audioBuffer_->Read(buffer, bufferSize)
AudioBufferRead(n) ==
    LET r == Read(Cur, n)
    IN  /\ SetBuffer(r.st)
        /\ readOut' = readOut \o r.out
        /\ last' = [op |-> "Read", n |-> n, data |-> <<>>, ret |-> TRUE,
                    cnt |-> Len(r.out), out |-> r.out, pre |-> Cur]
        /\ UNCHANGED <<size_, mutex_, written, sinceClear, dropped, call,
                       lin, done>>

\* audioBuffer_->Clear()
AudioBufferClear ==
    /\ SetBuffer(Clear(Cur))
    /\ sinceClear' = <<>>
    /\ readOut' = <<>>
    /\ last' = [op |-> "Clear", n |-> 0, data |-> <<>>, ret |-> TRUE,
                cnt |-> 0, out |-> <<>>, pre |-> Cur]
    /\ UNCHANGED <<size_, mutex_, written, dropped, call, lin, done>>

\* the packets the capture thread can hand to Write
Packets == UNION {[1..n -> Bytes] : n \in 1..CaptureCap}

\* the capture thread may finish one more turn of its loop, with or without
\* a packet, before it sees recording_ = false
LastTurn ==
    \/ UNCHANGED rbvars
    \/ \E data \in Packets :
          /\ Len(written) + Len(data) <= MaxCaptured
          /\ AudioBufferWrite(data)

\* how far WASAPIRecorder::Initialize gets before a COM call fails
CaptureStages == {"device", "activate", "client", "ok"}

\* WASAPIRecorder::Initialize.  Called while the capture thread runs, it
\* replaces the clients the thread is reading, and the process may die.
InitializeWith(formats) ==
    /\ ~r_crashed
    /\ recorder = "audio-recorder"
    /\ \E stage \in CaptureStages, dies \in BOOLEAN, format \in formats :
          /\ audioFormat_' = IF stage = "device" THEN audioFormat_
                             ELSE format
          /\ audioClient_' = CASE stage = "device" -> audioClient_
                               [] stage = "activate" -> "null"
                               [] OTHER -> "stopped"
          /\ initialized_' = (initialized_ \/ stage = "ok")
          /\ lastError_' = IF stage = "ok" THEN lastError_
                           ELSE "Failed to initialize"
          /\ r_crashed' = (/\ dies
                           /\ recordingThread_ = "running"
                           /\ stage # "device")
          /\ capCall' = CapCall("Initialize", stage = "ok")
    /\ UNCHANGED <<recording_, recordingThread_>>
    /\ UNCHANGED rbvars
    /\ UNCHANGED <<outsidecapture, wavFile, savepc, saveAvailable, wavRead>>

\* Initialize() with its default arguments
Initialize == InitializeWith({DefaultFormat})

\* Initialize(sampleRate, channels, bitsPerSample)
InitializeFormat == InitializeWith(Formats)

\* a StartRecording without the test of recording_
StartRecording_Restarts ==
    /\ AudioBufferClear
    /\ capCall' = CapCall("StartRecording", TRUE)
    /\ UNCHANGED <<recording_, audioClient_, recordingThread_, lastError_,
                   r_crashed>>

\* a StartRecording that returns true at once and touches nothing
StartRecording_AlreadyRecording ==
    /\ capCall' = CapCall("StartRecording", TRUE)
    /\ UNCHANGED <<recording_, audioClient_, recordingThread_, lastError_,
                   r_crashed>>
    /\ UNCHANGED rbvars

\* WASAPIRecorder::StartRecording; started: audioClient_->Start() succeeded.
\* A failed Initialize after a successful one leaves initialized_ set and
\* audioClient_ null, and audioClient_->Start() then ends the process.
StartRecording ==
    /\ ~r_crashed
    /\ recorder = "audio-recorder"
    /\ \E started \in BOOLEAN :
          IF ~initialized_
          THEN /\ lastError_' = "Recorder not initialized"
               /\ capCall' = CapCall("StartRecording", FALSE)
               /\ UNCHANGED <<recording_, audioClient_, recordingThread_,
                              r_crashed>>
               /\ UNCHANGED rbvars
          ELSE IF recording_
          THEN StartRecording_AlreadyRecording
          ELSE IF audioClient_ = "null"
          THEN /\ AudioBufferClear
               /\ r_crashed' = TRUE
               /\ capCall' = NoCapCall
               /\ UNCHANGED <<recording_, audioClient_, recordingThread_,
                              lastError_>>
          ELSE IF ~started
          THEN /\ AudioBufferClear
               /\ lastError_' = "Failed to start audio client"
               /\ capCall' = CapCall("StartRecording", FALSE)
               /\ UNCHANGED <<recording_, audioClient_, recordingThread_,
                              r_crashed>>
          ELSE /\ AudioBufferClear
               /\ audioClient_' = "started"
               /\ recording_' = TRUE
               /\ recordingThread_' = "running"
               /\ capCall' = CapCall("StartRecording", TRUE)
               /\ UNCHANGED <<lastError_, r_crashed>>
    /\ UNCHANGED initialized_
    /\ UNCHANGED noncapture

\* WASAPIRecorder::StopRecording, with the join of the capture thread
StopRecording ==
    /\ ~r_crashed
    /\ recorder = "audio-recorder"
    /\ IF ~recording_
       THEN /\ UNCHANGED <<recording_, audioClient_, recordingThread_>>
            /\ UNCHANGED rbvars
       ELSE /\ recording_' = FALSE
            /\ recordingThread_' = "none"
            /\ audioClient_' = IF audioClient_ = "null" THEN "null"
                               ELSE "stopped"
            /\ LastTurn
    /\ capCall' = CapCall("StopRecording", TRUE)
    /\ UNCHANGED <<initialized_, lastError_, r_crashed>>
    /\ UNCHANGED noncapture

\* WASAPIRecorder::RecordingThreadProc, one turn of the loop that got a
\* packet which is not silent
RecordingThreadProc ==
    /\ ~r_crashed
    /\ recorder = "audio-recorder"
    /\ recordingThread_ = "running"
    /\ recording_
    /\ \E data \in Packets :
          /\ Len(written) + Len(data) <= MaxCaptured
          /\ AudioBufferWrite(data)
    /\ capCall' = NoCapCall
    /\ UNCHANGED <<initialized_, recording_, audioClient_, recordingThread_,
                   lastError_, r_crashed>>
    /\ UNCHANGED noncapture

\* WASAPIRecorder::GetAudioData
GetAudioData ==
    /\ ~r_crashed
    /\ recorder = "audio-recorder"
    /\ \E n \in 1..CaptureCap :
          /\ AudioBufferRead(n)
          /\ capCall' = CapCall("GetAudioData", TRUE)
    /\ UNCHANGED <<initialized_, recording_, audioClient_, recordingThread_,
                   lastError_, r_crashed>>
    /\ UNCHANGED noncapture

(***************************************************************************)
(* The WAV file: WASAPIRecorder::SaveToWAV of audio-recorder writes it and *)
(* WhisperUtils::ReadWAVFile of whisper-binding reads it.  A file is the   *)
(* sequence of its bytes.                                                  *)
(***************************************************************************)
\* n as k bytes, least significant first
LE(n, k) == [i \in 1..k |-> (n \div (256 ^ (i - 1))) % 256]

\* the number bytes i .. i + k - 1 of a file hold
RECURSIVE Field(_, _, _)
Field(bytes, i, k) ==
    IF k = 0 THEN 0 ELSE bytes[i] + 256 * Field(bytes, i + 1, k - 1)

\* the four tags of struct WAVHeader: 'R','I','F','F' and so on
RIFF == <<82, 73, 70, 70>>
WAVE == <<87, 65, 86, 69>>
FMT == <<102, 109, 116, 32>>
DATA == <<100, 97, 116, 97>>

\* sizeof(WAVHeader): four tags, five 32-bit and four 16-bit members
SizeofWAVHeader == 4 * 4 + 5 * 4 + 4 * 2

\* struct WAVHeader as SaveToWAV fills it, member after member
WAVHeader_WholeFile(format, dataSize) ==
    RIFF \o LE(SizeofWAVHeader + dataSize, 4)
    \o WAVE \o FMT \o LE(16, 4) \o LE(1, 2)
    \o LE(format.nChannels, 2) \o LE(format.nSamplesPerSec, 4)
    \o LE(format.nAvgBytesPerSec, 4) \o LE(format.nBlockAlign, 2)
    \o LE(format.wBitsPerSample, 2)
    \o DATA \o LE(dataSize, 4)

WAVHeader(format, dataSize) ==
    RIFF \o LE(SizeofWAVHeader - 8 + dataSize, 4)
    \o WAVE \o FMT \o LE(16, 4) \o LE(1, 2)
    \o LE(format.nChannels, 2) \o LE(format.nSamplesPerSec, 4)
    \o LE(format.nAvgBytesPerSec, 4) \o LE(format.nBlockAlign, 2)
    \o LE(format.wBitsPerSample, 2)
    \o DATA \o LE(dataSize, 4)

\* WASAPIRecorder::SaveToWAV up to audioBuffer_->AvailableData(): the file
\* is opened, which empties it, and the call gives up when there is nothing
\* to save
SaveToWAVOpen ==
    /\ ~r_crashed
    /\ recorder = "audio-recorder"
    /\ savepc = "idle"
    /\ \E opened \in BOOLEAN :
          IF ~opened
          THEN /\ lastError_' = "Failed to open file for writing"
               /\ capCall' = CapCall("SaveToWAV", FALSE)
               /\ UNCHANGED <<wavFile, savepc, saveAvailable>>
          ELSE IF AvailableData(Cur) = 0
          THEN /\ lastError_' = "No audio data to save"
               /\ wavFile' = [exists |-> TRUE, bytes |-> <<>>]
               /\ capCall' = CapCall("SaveToWAV", FALSE)
               /\ UNCHANGED <<savepc, saveAvailable>>
          ELSE /\ wavFile' = [exists |-> TRUE, bytes |-> <<>>]
               /\ savepc' = "read"
               /\ saveAvailable' = AvailableData(Cur)
               /\ capCall' = NoCapCall
               /\ UNCHANGED lastError_
    /\ UNCHANGED <<initialized_, recording_, audioClient_, recordingThread_,
                   r_crashed, audioFormat_, wavRead>>
    /\ UNCHANGED rbvars
    /\ UNCHANGED outsidecapture

\* the rest of SaveToWAV: audioBuffer_->Read of availableData bytes, the
\* header for the bytes Read returned, the header and the bytes written
SaveToWAVWrite ==
    /\ ~r_crashed
    /\ recorder = "audio-recorder"
    /\ savepc = "read"
    /\ AudioBufferRead(saveAvailable)
    /\ LET audioData == Read(Cur, saveAvailable).out
           actualSize == Len(audioData)
       IN  wavFile' = [exists |-> TRUE,
                       bytes |-> WAVHeader(audioFormat_, actualSize)
                                 \o audioData]
    /\ savepc' = "idle"
    /\ saveAvailable' = 0
    /\ capCall' = CapCall("SaveToWAV", TRUE)
    /\ UNCHANGED <<initialized_, recording_, audioClient_, recordingThread_,
                   lastError_, r_crashed, audioFormat_, wavRead>>
    /\ UNCHANGED outsidecapture

\* WhisperUtils::ReadWAVFile: when the file opens, sample_rate is 16000 and
\* audio_data is 16000 samples of 0.0f; the bytes of the file are not read
ReadWAVFile ==
    /\ ~r_crashed
    /\ recorder = "audio-recorder"
    /\ wavRead' = IF wavFile.exists
                  THEN [op |-> "ReadWAVFile", ret |-> TRUE,
                        sample_rate |-> 16000, size |-> 16000, fill |-> 0]
                  ELSE [op |-> "ReadWAVFile", ret |-> FALSE,
                        sample_rate |-> 0, size |-> 0, fill |-> 0]
    /\ capCall' = CapCall("ReadWAVFile", wavFile.exists)
    /\ UNCHANGED <<initialized_, recording_, audioClient_, recordingThread_,
                   lastError_, r_crashed, audioFormat_, wavFile, savepc,
                   saveAvailable>>
    /\ UNCHANGED rbvars
    /\ UNCHANGED outsidecapture

\* the first bytes of the four tags in a file
TagOffsets == {1, 9, 13, 37}

\* another program overwrites the first byte of a tag of the file
ForeignFile ==
    /\ ~r_crashed
    /\ recorder = "audio-recorder"
    /\ savepc = "idle"
    /\ Len(wavFile.bytes) >= SizeofWAVHeader
    /\ \A i \in TagOffsets : wavFile.bytes[i] # 0
    /\ \E i \in TagOffsets : wavFile' = [wavFile EXCEPT !.bytes[i] = 0]
    /\ capCall' = NoCapCall
    /\ UNCHANGED <<initialized_, recording_, audioClient_, recordingThread_,
                   lastError_, r_crashed, audioFormat_, savepc,
                   saveAvailable, wavRead>>
    /\ UNCHANGED rbvars
    /\ UNCHANGED outsidecapture

(***************************************************************************)
(* Specifications.                                                         *)
(***************************************************************************)
\* one CircularBuffer used by one thread at a time
InitRing ==
    /\ BufferInit(1..MaxCap) /\ SchedulerInit /\ TranscriberInit
    /\ RecorderInit /\ PipelineInit({2}) /\ CaptureInit({"native"})

NextRing == WriteCall \/ ReadCall \/ AvailableDataCall \/ ClearCall

SpecRing == InitRing /\ [][NextRing]_vars

\* one CircularBuffer shared by the capture thread and the consumers
NextRingConc ==
    \E t \in RBThreads :
        \/ WriteEnter(t) \/ WriteStep(t) \/ WriteReturn(t)
        \/ ReadEnter(t) \/ ReadStep(t) \/ ReadReturn(t)
        \/ AvailableDataEnter(t) \/ AvailableDataReturn(t)
        \/ ClearEnter(t) \/ ClearReturn(t)

SpecRingConc == InitRing /\ [][NextRingConc]_vars

\* one WhisperTranscription, its host thread and its workers
Init ==
    /\ BufferInit({1}) /\ SchedulerInit /\ TranscriberInit
    /\ RecorderInit /\ PipelineInit({2}) /\ CaptureInit({"native"})

Next ==
    \/ initialize
    \/ cleanup
    \/ cleanupJoined
    \/ queueTranscription
    \/ queueTranscriptionInsert
    \/ \E id \in JobIds : getTranscriptionProgress(id)
    \/ \E id \in JobIds : CancelTranscription(id)
    \/ setProgressCallback
    \/ \E m \in ModelIds \cup {"unknown"} : loadModel(m)
    \/ unloadModel
    \/ transcribeBuffer
    \/ \E w \in Workers :
          \/ workerLoop(w)
          \/ workerDequeue(w)
          \/ workerSleep(w)
          \/ workerStart(w)
          \/ workerProcessing(w)
          \/ workerProcessAudio(w)
          \/ workerFinalizing(w)
          \/ workerComplete(w)
          \/ workerCatch(w)

Spec == Init /\ [][Next]_vars

\* One job run from queueTranscription to completeJob with nothing else in
\* between: the steps queueTranscriptionInsert, workerDequeue, workerStart,
\* workerProcessing, workerProcessAudio, workerFinalizing and workerComplete
\* of a voiced clip whose id no other job has, taken as one step.
runJobToCompletion ==
    /\ HostIdle
    /\ m_initialized
    /\ njobs < MaxHistoryJobs
    /\ m_completedJobs' =
          Put(m_completedJobs, njobs + 1,
              Completed(Updated(Updated(Updated(QueuedProgress, P0), P20), P90),
                        processAudio(TRUE, TRUE).result))
    /\ njobs' = njobs + 1
    /\ submitted' = submitted \cup {njobs + 1}
    /\ lastCall' = NoHostCall
    /\ UNCHANGED <<m_transcriptionQueue, m_activeJobs, mvars, tvars,
                   m_shouldStop, m_initialized, m_progressCallback,
                   m_lastError, hostpc, hostjob, crashed, cleanupCalled>>
    /\ UNCHANGED <<ledger, insertRaced, nonsched>>

\* a scheduler that is started and then runs jobs one after another
NextHistory == initialize \/ runJobToCompletion

SpecHistory == Init /\ [][NextHistory]_vars

\* the same scheduler with a host that queues and polls jobs and leaves the
\* model alone
NextJobs ==
    \/ initialize
    \/ cleanup
    \/ cleanupJoined
    \/ queueTranscription
    \/ queueTranscriptionInsert
    \/ \E id \in JobIds : getTranscriptionProgress(id)
    \/ \E id \in JobIds : CancelTranscription(id)
    \/ setProgressCallback
    \/ \E w \in Workers :
          \/ workerLoop(w)
          \/ workerDequeue(w)
          \/ workerSleep(w)
          \/ workerStart(w)
          \/ workerProcessing(w)
          \/ workerProcessAudio(w)
          \/ workerFinalizing(w)
          \/ workerComplete(w)
          \/ workerCatch(w)

SpecJobs == Init /\ [][NextJobs]_vars

\* the scheduler running its jobs, with an observer that the host installs
\* or removes before it starts the workers
NextOutcomes ==
    \/ initialize
    \/ queueTranscription
    \/ queueTranscriptionInsert
    \/ ~m_initialized /\ setProgressCallback
    \/ \E w \in Workers :
          \/ workerLoop(w)
          \/ workerDequeue(w)
          \/ workerSleep(w)
          \/ workerStart(w)
          \/ workerProcessing(w)
          \/ workerProcessAudio(w)
          \/ workerFinalizing(w)
          \/ workerComplete(w)
          \/ workerCatch(w)

SpecOutcomes == Init /\ [][NextOutcomes]_vars

\* the scheduler running its jobs, clips without voice, while the host looks
\* them up; no observer is installed, so no worker reaches its catch
NextLookup ==
    \/ initialize
    \/ queueTranscription
    \/ queueTranscriptionInsert
    \/ \E id \in JobIds : getTranscriptionProgress(id)
    \/ \E w \in Workers :
          \/ workerLoop(w)
          \/ workerDequeue(w)
          \/ workerSleep(w)
          \/ workerStart(w)
          \/ workerProcessing(w)
          \/ workerSkipModel(w)
          \/ workerFinalizing(w)
          \/ workerComplete(w)

SpecLookup == Init /\ [][NextLookup]_vars

\* one WhisperTranscriber and the disk it reads its models from
NextTranscriber ==
    \/ \E p \in Paths : LoadModel(p)
    \/ UnloadModel
    \/ \E a \in AudioData : Transcribe(a)
    \/ ClearError
    \/ \E p \in Paths : CreateFile(p)
    \/ \E p \in Paths : RemoveFile(p)

SpecTranscriber == Init /\ [][NextTranscriber]_vars

\* one WASAPIRecorder, its caller and its capture thread
NextRecorder ==
    \/ WASAPIRecorder_initialize
    \/ startRecording
    \/ stopRecording
    \/ pauseRecording
    \/ resumeRecording
    \/ getAudioBuffer
    \/ WASAPIRecorder_cleanup
    \/ recordingLoopCapture
    \/ recordingLoopBreak

    \/ Initialize
    \/ StartRecording
    \/ StopRecording
    \/ RecordingThreadProc
    \/ GetAudioData

\* either WASAPIRecorder, with its 1 MB audioBuffer_ scaled to CaptureCap
InitRecorder ==
    /\ BufferInit({CaptureCap}) /\ SchedulerInit /\ TranscriberInit
    /\ RecorderInit /\ PipelineInit({2}) /\ CaptureInit(RecorderClasses)

SpecRecorder == InitRecorder /\ [][NextRecorder]_vars

\* the queue between the capture thread and its readers, in a session that
\* is recording on a mono or a stereo device
NextQueue ==
    \/ recordingLoopQueue
    \/ getAudioDataSome
    \/ getAudioBuffer

InitQueue ==
    /\ BufferInit({1}) /\ SchedulerInit /\ TranscriberInit
    /\ RecordingStarted /\ PipelineInit(DeviceChannels)
    /\ CaptureInit({"native"})

SpecQueue == InitQueue /\ [][NextQueue]_vars

\* the threads that call the model: the workers on queued jobs and the host
\* in transcribeBuffer
NextModelCall ==
    \/ initialize
    \/ queueTranscription
    \/ queueTranscriptionInsert
    \/ \E m \in ModelIds : loadModel(m)
    \/ transcribeBufferEnter
    \/ transcribeBufferReturn
    \/ \E w \in Workers :
          \/ workerLoop(w)
          \/ workerDequeue(w)
          \/ workerSleep(w)
          \/ workerStart(w)
          \/ workerProcessing(w)
          \/ workerSkipModel(w)
          \/ workerEnterModel(w)
          \/ workerLeaveModel(w)
          \/ workerFinalizing(w)
          \/ workerComplete(w)

SpecModelCall == Init /\ [][NextModelCall]_vars

\* the same threads with a host that also unloads the model and shuts the
\* scheduler down
NextModelUse ==
    \/ NextModelCall
    \/ unloadModel
    \/ cleanup
    \/ cleanupJoined

SpecModelUse == Init /\ [][NextModelUse]_vars

\* the scheduler with a host that loads and unloads models and transcribes
\* buffers of its own while the worker runs the queued jobs
NextModels ==
    \/ initialize
    \/ queueTranscription
    \/ queueTranscriptionInsert
    \/ \E m \in ModelIds \cup {"unknown"} : loadModel(m)
    \/ unloadModel
    \/ transcribeBuffer
    \/ \E w \in Workers :
          \/ workerLoop(w)
          \/ workerDequeue(w)
          \/ workerSleep(w)
          \/ workerStart(w)
          \/ workerProcessing(w)
          \/ workerProcessAudio(w)
          \/ workerFinalizing(w)
          \/ workerComplete(w)

SpecModels == Init /\ [][NextModels]_vars

\* a pool of several workers that poll one queue, with an observer that the
\* host installs or removes before it starts the workers; every job is
\* followed as an object, and every clip is one without voice
InitPool ==
    /\ BufferInit({1}) /\ SchedulerInitWith(1..PoolSize, TRUE)
    /\ TranscriberInit /\ RecorderInit /\ PipelineInit({2})
    /\ CaptureInit({"native"})

NextPool ==
    \/ initialize
    \/ queueTranscription
    \/ queueTranscriptionInsert
    \/ ~m_initialized /\ setProgressCallback
    \/ \E w \in DOMAIN wpc :
          \/ workerLoop(w)
          \/ workerDequeue(w)
          \/ workerSleep(w)
          \/ workerStart(w)
          \/ workerProcessing(w)
          \/ workerSkipModel(w)
          \/ workerFinalizing(w)
          \/ workerComplete(w)
          \/ workerCatch(w)

SpecPool == InitPool /\ [][NextPool]_vars

\* a recording session whose stopRecording is followed step by step; the
\* other calls come from the same control thread, so none is made while
\* that thread is inside stopRecording
NextStop ==
    \/ ~Joining /\ WASAPIRecorder_initialize
    \/ ~Joining /\ startRecording
    \/ ~Joining /\ pauseRecording
    \/ ~Joining /\ resumeRecording
    \/ stopRecordingSignal
    \/ stopRecordingJoined
    \/ recordingLoopCapture
    \/ recordingLoopBreak
    \/ recordingLoopExit

SpecStop == Init /\ [][NextStop]_vars

\* a recorder of audio-recorder that saves what it captured to a WAV file,
\* and a reader of that file
NextWav ==
    \/ InitializeFormat
    \/ StartRecording
    \/ RecordingThreadProc
    \/ SaveToWAVOpen
    \/ SaveToWAVWrite
    \/ ReadWAVFile
    \/ ForeignFile

InitWav ==
    /\ BufferInit({CaptureCap + 1}) /\ SchedulerInit /\ TranscriberInit
    /\ RecorderInit /\ PipelineInit({2}) /\ CaptureInit({"audio-recorder"})

SpecWav == InitWav /\ [][NextWav]_vars

\* the writer alone, with the capture thread
NextSave ==
    \/ InitializeFormat
    \/ StartRecording
    \/ RecordingThreadProc
    \/ SaveToWAVOpen
    \/ SaveToWAVWrite

SpecSave == InitWav /\ [][NextSave]_vars

\* the error state of a recording session and of a transcription engine:
\* calls that fail, calls that succeed, and clearError
NextErrors ==
    \/ WASAPIRecorder_initialize
    \/ startRecording
    \/ pauseRecording
    \/ WASAPIRecorder_clearError
    \/ \E m \in ModelIds \cup {"unknown"} : loadModel(m)
    \/ unloadModel
    \/ transcribeBuffer
    \/ clearError

SpecErrors == Init /\ [][NextErrors]_vars

\* the voice-activity decision and the observer, on frames of silence, quiet
\* and loud samples
NextGate ==
    \/ recordingLoopLevels
    \/ setAudioDataCallback
    \/ setGainLevel
    \/ enableNoiseSupression

SpecGate == InitQueue /\ [][NextGate]_vars

\* the processing chain with its settings, fed frames of silence up to the
\* end of the recording; the last turn of the capture loop, in stopRecording,
\* may still bring a loud frame
NextSilence ==
    \/ recordingLoopSilence
    \/ setGainLevel
    \/ enableNoiseSupression
    \/ enableAutomaticGainControl
    \/ enableEchoCancellation
    \/ stopRecording
    \/ getAudioDataAll

\* a session recording on a mono device
InitSilence ==
    /\ BufferInit({1}) /\ SchedulerInit /\ TranscriberInit
    /\ RecordingStarted /\ PipelineInit({1})
    /\ CaptureInit({"native"})

SpecSilence == InitSilence /\ [][NextSilence]_vars

\* a session recording on a mono device whose packets wait in the endpoint
\* buffer until the capture thread reads them, with pauses, an observer and
\* a reader of the queue
NextStream ==
    \/ endpointCapture
    \/ recordingLoopWake
    \/ pauseRecording
    \/ resumeRecording
    \/ setAudioDataCallback
    \/ getAudioDataAll

SpecStream == InitSilence /\ [][NextStream]_vars

\* a session recording on a mono device whose frames differ in loudness,
\* with a caller that resets the peak at any time, also between the load
\* and the store of the capture thread
NextPeak ==
    \/ updateAudioLevelsLoad
    \/ recordingLoopLevels
    \/ resetPeakLevel

SpecPeak == InitSilence /\ [][NextPeak]_vars

(***************************************************************************)
(* Claims about the CircularBuffer used by one thread at a time.           *)
(***************************************************************************)

\* C1: starting from an empty (or just cleared) buffer, as long as at most
\* size_ bytes have been written in total, the bytes the Reads returned,
\* followed by a final Read of everything available, are exactly the bytes
\* written, in order.
C1_RoundTripUpToCapacity ==
    Len(sinceClear) <= size_ => readOut \o Unread(Cur) = sinceClear

\* C5: a Write of at most size_ bytes always returns true; when the unread
\* bytes no longer fit only the oldest are discarded; the unread bytes are at
\* every moment the newest bytes of the written stream, in write order, and a
\* Read hands them out oldest first without skipping or repeating any.
C5_OverflowKeepsNewestInOrder ==
    /\ Unread(Cur) = Suffix(written, AvailableData(Cur))
    /\ (last.op = "Write" /\ last.n <= size_) =>
          /\ last.ret
          /\ Unread(Cur) =
                Suffix(Unread(last.pre) \o last.data,
                       Min(size_ - 1, Len(Unread(last.pre)) + last.n))
    /\ last.op = "Read" => last.out \o Unread(Cur) = Unread(last.pre)

\* C5 happens: bytes were discarded by an overflowing Write and a later Read
\* returned some of the surviving bytes
C5_Witness == dropped /\ last.op = "Read" /\ Len(last.out) > 0

\* C6: AvailableData() never exceeds the capacity, both cursors stay inside
\* the storage, and AvailableData() is 0 after construction and after Clear.
C6_CursorsAndAvailableBounded ==
    /\ AvailableData(Cur) <= size_
    /\ head_ \in 0..(size_ - 1)
    /\ tail_ \in 0..(size_ - 1)
    /\ last.op \in {"ctor", "Clear"} => AvailableData(Cur) = 0

\* C6 happens: the write cursor has wrapped around a full buffer
C6_Witness == size_ > 1 /\ head_ < tail_ /\ AvailableData(Cur) = size_ - 1

\* C7: Write returns false exactly when asked for more than size_ bytes, and a
\* Write that returned false left the cursors, AvailableData() and the unread
\* bytes as they were.
C7_WriteRejectsOnlyOversize ==
    last.op = "Write" =>
        /\ (~last.ret) <=> (last.n > size_)
        /\ (~last.ret) =>
              /\ Cur = last.pre
              /\ AvailableData(Cur) = AvailableData(last.pre)
              /\ Unread(Cur) = Unread(last.pre)

\* C7 happens: an oversize Write was rejected on a buffer holding unread bytes
C7_Witness == last.op = "Write" /\ ~last.ret /\ AvailableData(Cur) > 0

(***************************************************************************)
(* Claims about the CircularBuffer shared by several threads.              *)
(***************************************************************************)

\* C8: calls made concurrently by the capture thread and the consumers take
\* effect atomically: every returned call returned what the whole call
\* returns when the calls run one after another in the order they took the
\* mutex, and whenever no call is in progress the cursors and the storage are
\* those of that sequential run.
C8_CallsAreAtomic ==
    /\ \A t \in RBThreads :
          done[t].op \notin {"none", "entered"} => done[t].got = done[t].exp
    /\ (\A t \in RBThreads : Idle(t)) => Cur = lin

\* C8 happens: the reader's Read has returned bytes, the capture thread's
\* Write has returned and so has the saver's AvailableData
C8_Witness ==
    /\ done["reader"].op = "Read" /\ Len(done["reader"].got) > 0
    /\ done["capture"].op = "Write"
    /\ done["saver"].op = "AvailableData"

(***************************************************************************)
(* Claims about the job scheduler, checked under Spec.                     *)
(***************************************************************************)
\* ids the scheduler has a record of
Known == DOMAIN m_completedJobs \cup DOMAIN m_activeJobs

\* the record the scheduler holds for a known id
Record(id) ==
    IF id \in DOMAIN m_completedJobs THEN m_completedJobs[id]
    ELSE m_activeJobs[id]

\* nothing is queued or being worked on, and the calling thread is between
\* calls
AtRest ==
    /\ ~crashed
    /\ hostpc = "idle"
    /\ m_transcriptionQueue = <<>>
    /\ \A w \in Workers : wpc[w] \in {"loop", "poll"}

\* C2: with a started pool of W workers, more than W jobs submitted and
\* cleanup() never called, once the queue is drained and every worker is
\* back at the top of its loop, every submitted job is in the completed
\* history with a terminal status.
C2_EverySubmittedJobEndsTerminal ==
    (m_initialized /\ ~cleanupCalled /\ njobs > NumWorkers /\ AtRest)
        => \A id \in submitted :
              /\ id \in DOMAIN m_completedJobs
              /\ m_completedJobs[id].status \in Terminal

\* C3: when a cancel call on a job whose status is Queued has returned, the
\* job is no longer in the pending queue and its status is Cancelled.
C3_CancelOfQueuedJobCancels ==
    (lastCall.op = "cancelTranscription" /\ lastCall.was = "QUEUED")
        => /\ Status(lastCall.id) = "CANCELLED"
           /\ \A i \in 1..Len(m_transcriptionQueue) :
                 m_transcriptionQueue[i] # lastCall.id

\* C4: while no model has ever been loaded, no job ends with status
\* Completed.
C4_NoModelJobNeverCompleted ==
    ~everLoaded
        => \A id \in DOMAIN m_completedJobs :
              m_completedJobs[id].status # "COMPLETED"

\* the status changes of the job state machine; "none" is an id without a
\* record
StatusSteps ==
    {<<"none", "QUEUED">>, <<"QUEUED", "PROCESSING">>,
     <<"PROCESSING", "COMPLETED">>, <<"PROCESSING", "ERROR">>,
     <<"QUEUED", "CANCELLED">>}

\* C9: in every step the status of an id either stays, or changes along
\* Queued->Processing, Processing->Completed, Processing->Error or
\* Queued->Cancelled (or the record is dropped by cleanup); and the record of
\* an id whose status is terminal does not change while it is kept.
C9_StatusFollowsStateMachine ==
    [][\A id \in JobIds :
          /\ (Status(id)' # Status(id) /\ Status(id)' # "none")
                => <<Status(id), Status(id)'>> \in StatusSteps
          /\ (Status(id) \in Terminal /\ Status(id)' # "none")
                => Record(id)' = Record(id)]_vars

\* C10: in every step, the progress recorded for an id stays within 0..100
\* percent, does not decrease while the id's status is not terminal, and is
\* 100 percent when the status is Completed.
C10_ProgressNeverDecreases ==
    [][\A id \in JobIds :
          (id \in Known /\ id \in Known')
             => /\ Record(id)'.progress \in P0..P100
                /\ Status(id) \notin Terminal
                      => Record(id)'.progress >= Record(id).progress
                /\ Status(id)' = "COMPLETED"
                      => Record(id)'.progress = P100]_vars

C12_FailedTranscriptionEndsInError ==
    [][\A w \in Workers :
          (wpc[w] = "complete" /\ wfailed[w] /\ wpc'[w] # "complete")
             => /\ Status(wjob[w])' = "ERROR"
                /\ Record(wjob[w])'.errorMessage # ""
                /\ wpc'[w] = "loop"]_vars

\* what the caller was handed is the status, progress and errorMessage of
\* record rec
Handed(ret, rec) ==
    /\ ret.was = rec.status
    /\ ret.progress = rec.progress
    /\ ret.msg = rec.errorMessage

\* C14: a getTranscriptionProgress(id) step returns the history entry of id
\* when there is one, otherwise the record of the active job with that id,
\* otherwise a stub with status Error and errorMessage "Job not found"; and it
\* leaves the queue, the active map and the history as they were.
C14_LookupReturnsHistoryThenActiveThenStub ==
    [][lastCall'.op = "getTranscriptionProgress"
          => /\ UNCHANGED qvars
             /\ IF lastCall'.id \in DOMAIN m_completedJobs
                THEN Handed(lastCall', m_completedJobs[lastCall'.id])
                ELSE IF lastCall'.id \in DOMAIN m_activeJobs
                THEN Handed(lastCall', m_activeJobs[lastCall'.id])
                ELSE /\ lastCall'.was = "ERROR"
                     /\ lastCall'.msg = "Job not found"]_vars

\* C14 happens: the id just looked up has both a history entry and an active
\* job, and the history entry was returned
C14_Witness ==
    /\ lastCall.op = "getTranscriptionProgress"
    /\ lastCall.id \in DOMAIN m_completedJobs \cap DOMAIN m_activeJobs
    /\ lastCall.was \in Terminal

\* C15: the id a queueTranscription call puts into the queue and the active
\* map is the id of no job submitted to this scheduler before, and no entry of
\* the active map is overwritten by the insertion.
C15_JobIdsAreUnique ==
    [][(hostpc = "inserting" /\ hostpc' = "idle")
          => /\ hostjob \notin submitted
             /\ hostjob \notin DOMAIN m_activeJobs]_vars

\* C16: a loadModel(B) call made while a different model A is loaded
\* completes: the host thread is never left blocked inside loadModel.
C16_LoadOverLoadedModelCompletes == hostpc # "deadlocked"

\* C18: a transcribeBuffer call made while no model is loaded, or with an
\* empty sample buffer, reports an error to its caller and leaves the loaded
\* model as it was.
C18_TranscribeFailsFastWithError ==
    [][(/\ lastCall'.op = "transcribeBuffer"
        /\ (m_currentModel = "null" \/ lastCall'.was = "empty"))
          => /\ lastCall'.msg # ""
             /\ UNCHANGED mvars]_vars

(***************************************************************************)
(* Claims about the completed history, checked under SpecHistory.          *)
(***************************************************************************)
\* C13: the completed history never holds more than MAX_COMPLETED_JOBS
\* entries.
C13_HistoryNeverExceedsBound ==
    Cardinality(DOMAIN m_completedJobs) <= MAX_COMPLETED_JOBS

(***************************************************************************)
(* Claims about the WhisperTranscriber, checked under SpecTranscriber.     *)
(***************************************************************************)
\* C17: a LoadModel(path) call made while no file exists at path returns
\* false, leaves an error recorded and leaves no model loaded.
C17_LoadOfMissingFileFails ==
    (returned.op = "LoadModel" /\ ~returned.existed)
        => /\ ~returned.success
           /\ last_error_ # ""
           /\ ~model_loaded_

(***************************************************************************)
(* Claims about the recording session, checked under SpecRecorder.         *)
(***************************************************************************)
\* C19: a start call made while the session is recording (paused or not)
\* returns true and changes nothing: the capture thread, the stream, the
\* captured audio, the paused flag and every other member stay as they
\* were.  This holds for startRecording of native/wasapi_recorder.cpp and
\* for StartRecording of audio-recorder/wasapi_recorder.cpp.
C19_StartWhileRecordingChangesNothing ==
    [][/\ (recCall'.op = "startRecording" /\ m_isRecording)
             => /\ recCall'.ret
                /\ UNCHANGED <<m_device, m_audioClient, m_captureClient,
                               m_isRecording, m_isPaused, r_shouldStop,
                               r_lastError, m_recordingThread, pvars, cfgvars,
                               r_crashed>>
       /\ (capCall'.op = "StartRecording" /\ recording_)
             => /\ capCall'.ret
                /\ UNCHANGED <<rbvars, initialized_, recording_,
                               audioClient_, recordingThread_, lastError_,
                               r_crashed>>]_vars

\* C19 happens: startRecording has just returned true in a session that was
\* recording and paused, with captured audio waiting in the queue
C19_Witness ==
    /\ recCall.op = "startRecording"
    /\ recCall.ret /\ recCall.recording /\ recCall.paused
    /\ m_isPaused
    /\ m_audioQueue # <<>>

\* StartRecording has just returned true in a session that was recording,
\* with captured bytes unread in audioBuffer_
C19_CaptureWitness ==
    /\ capCall.op = "StartRecording"
    /\ capCall.ret /\ capCall.recording
    /\ AvailableData(Cur) > 0

\* C20: pauseRecording returns true exactly when the session is recording
\* and not paused, resumeRecording returns true exactly when the session is
\* recording and paused, and a call that returns false leaves m_isRecording
\* and m_isPaused as they were.
C20_PauseResumeOnlyInTheirStates ==
    [][/\ recCall'.op = "pauseRecording"
             => /\ recCall'.ret = (m_isRecording /\ ~m_isPaused)
                /\ ~recCall'.ret => UNCHANGED <<m_isRecording, m_isPaused>>
       /\ recCall'.op = "resumeRecording"
             => /\ recCall'.ret = (m_isRecording /\ m_isPaused)
                /\ ~recCall'.ret => UNCHANGED <<m_isRecording, m_isPaused>>
      ]_vars

\* C20 happens: resumeRecording has just been refused in a stopped session
\* whose paused flag was still set from before the stop
C20_Witness ==
    /\ recCall.op = "resumeRecording"
    /\ ~recCall.ret /\ ~recCall.recording /\ recCall.paused
    /\ ~m_isRecording /\ m_isPaused

\* C21: an initialize call made while the session is recording (paused or
\* not) returns false and leaves the device, the audio client, the capture
\* client and the recording flags as they were, in both recorder classes.
C21_InitializeWhileRecordingRejected ==
    [][/\ (recCall'.op = "initialize" /\ m_isRecording)
             => /\ ~recCall'.ret
                /\ UNCHANGED <<m_device, m_audioClient, m_captureClient,
                               m_isRecording, m_isPaused>>
       /\ (capCall'.op = "Initialize" /\ recording_)
             => /\ ~capCall'.ret
                /\ UNCHANGED <<audioClient_, recording_, initialized_>>
      ]_vars

(***************************************************************************)
(* Claims about the queue of captured buffers and the processing chain.    *)
(***************************************************************************)

\* C22: the queue never holds more than its capacity; a push at capacity
\* drops exactly the oldest buffer and adds one to bufferOverruns, nothing
\* else changes bufferOverruns, and so bufferOverruns is the number of
\* buffers dropped.
C22_QueueBoundedOverrunsCounted ==
    [][/\ Len(m_audioQueue') <= MaxQueueSize
       /\ bufferOverruns' = evictions'
       /\ IF nframes' # nframes /\ Len(m_audioQueue) = MaxQueueSize
          THEN /\ bufferOverruns' = bufferOverruns + 1
               /\ Len(m_audioQueue') = MaxQueueSize
               /\ SubSeq(m_audioQueue', 1, MaxQueueSize - 1)
                     = Tail(m_audioQueue)
               /\ m_audioQueue'[MaxQueueSize].samples = frame'.samples
          ELSE bufferOverruns' = bufferOverruns
      ]_vars

C22_Witness ==
    /\ frame.full
    /\ bufferOverruns = 2
    /\ Len(m_audioQueue) = MaxQueueSize

\* the samples of the queued buffers, front first
RECURSIVE Flatten(_)
Flatten(queue) ==
    IF queue = <<>> THEN <<>>
    ELSE Head(queue).samples \o Flatten(Tail(queue))

\* a stream without the samples dropped on overflow
RECURSIVE Kept(_)
Kept(stream) ==
    IF stream = <<>> THEN <<>>
    ELSE (IF Head(stream).k \in evicted THEN <<>> ELSE <<Head(stream)>>)
         \o Kept(Tail(stream))

\* C23: whatever the interleaving of pushes, getAudioData(maxFrames) and
\* getAudioBuffer calls, the samples handed out so far followed by the
\* samples still queued are the captured stream without the samples dropped
\* on overflow, in capture order, each once, also when maxFrames cut a
\* buffer in two.
C23_FifoDelivery ==
    /\ delivered \o Flatten(m_audioQueue) = Kept(captured)
    /\ \A i \in 1..Len(captured) : captured[i].k = i

\* a call cut a buffer in two, a later call returned the rest, and a buffer
\* was dropped on overflow in between or before
C23_Witness ==
    /\ recCall.op = "getAudioData"
    /\ handed # <<>>
    /\ evicted # {}
    /\ \E i \in 1..Len(delivered) : \E j \in 1..Len(m_audioQueue) :
          /\ m_audioQueue[j].frameCount = 1
          /\ Len(m_audioQueue[j].samples) = m_audioQueue[j].channelCount
          /\ m_audioQueue[j].samples[1].k = delivered[i].k + 1
          /\ j = 1

\* C24: every frame the capture thread processes is pushed to the queue
\* whatever the voice-activity decision is, the decision is that the smoothed
\* VAD level is above the threshold, and the observer is called for the
\* frame exactly when one is registered and the decision is positive.
C24_QueuedAlwaysNotifiedOnVoice ==
    [][nframes' # nframes =>
          /\ m_audioQueue' # <<>>
          /\ m_audioQueue'[Len(m_audioQueue')].samples = frame'.samples
          /\ frame'.voice = (m_vadLevel' > VAD_THRESHOLD)
          /\ frame'.called = (m_audioDataCallback /\ frame'.voice)
      ]_vars

\* a first frame of quiet samples, for which the decision is negative, and
\* a later frame with a positive decision handed to the observer, both
\* stored
C24_Witness ==
    /\ captured # <<>> /\ captured[1].v = 5
    /\ nframes = 3
    /\ frame.voice /\ frame.observer /\ frame.called
    /\ m_audioQueue[Len(m_audioQueue)].samples = frame.samples

\* the first read of the queue, after the recording was stopped, returned
\* everything queued
ReadAfterStop ==
    /\ recCall.op = "getAudioData"
    /\ ~m_isRecording
    /\ delivered = handed
    /\ m_audioQueue = <<>>

\* C25, as stated: after any number of frames of zeros, with any setting of
\* gain, noise gate, AGC and echo attenuation, the levels are 0, the
\* voice-activity decision is negative, and getAudioData after the stop
\* returns as many samples as were processed, all 0.
C25_SilenceInSilenceOut_AnyNumber ==
    fedZero =>
       /\ m_currentLevel = 0 /\ m_peakLevel = 0 /\ ~frame.voice
       /\ ReadAfterStop =>
             /\ Len(handed) = Len(captured)
             /\ \A i \in 1..Len(handed) : handed[i].v = 0

\* C25, amended: the same for at most as many frames as the queue holds;
\* beyond that the oldest frames are dropped and getAudioData returns the
\* samples of the frames that are left, all 0.
C25_SilenceInSilenceOut ==
    fedZero =>
       /\ m_currentLevel = 0 /\ m_peakLevel = 0 /\ ~frame.voice
       /\ ReadAfterStop =>
             /\ nframes <= MaxQueueSize => Len(handed) = Len(captured)
             /\ Len(handed) = Len(captured) - Cardinality(evicted)
             /\ \A i \in 1..Len(handed) : handed[i].v = 0

C25_Witness ==
    /\ fedZero
    /\ ReadAfterStop
    /\ nframes = MaxQueueSize
    /\ Len(handed) = MaxQueueSize
    /\ m_gainLevel # GainOne
    /\ m_noiseSuppressionEnabled /\ m_agcEnabled /\ m_echoCancellationEnabled

\* C26: an initialize or startRecording call that fails at a device or stream
\* step returns false, records an error and leaves the device, the audio
\* client, the capture client and the recording flags as they were before
\* the call, so that a startRecording which would have succeeded before still
\* succeeds.
C26_FailedStepLeavesState ==
    [][(recCall'.op \in {"initialize", "startRecording"} /\ ~recCall'.ret)
          => /\ r_lastError' # ""
             /\ UNCHANGED <<m_device, m_audioClient, m_captureClient,
                            m_isRecording, m_isPaused>>
      ]_vars

\* C27: the error state of a recording session and of a transcription
\* engine is sticky: a recorded error stays through every later call but
\* clearError, clearError empties it, and an empty error state becomes
\* non-empty only in a call that fails.
C27_ErrorStickyUntilCleared ==
    [][/\ (r_lastError # "" /\ recCall'.op # "clearError")
             => r_lastError' # ""
       /\ recCall'.op = "clearError" => r_lastError' = ""
       /\ (r_lastError = "" /\ r_lastError' # "") => ~recCall'.ret
       /\ (m_lastError # "" /\ lastCall'.op # "clearError")
             => m_lastError' # ""
       /\ lastCall'.op = "clearError" => m_lastError' = ""
       /\ (m_lastError = "" /\ m_lastError' # "")
             => /\ UNCHANGED mvars
                /\ lastCall'.op = "transcribeBuffer"
                     => lastCall'.msg = m_lastError'
      ]_vars

\* both engines hold an error recorded by a failed call, and successful
\* calls were made since: recording has started and a model is loaded
C27_Witness ==
    /\ r_lastError # "" /\ m_isRecording /\ recCall.op = "startRecording"
    /\ m_lastError # "" /\ m_currentModel # "null"
    /\ lastCall.op = "transcribeBuffer" /\ lastCall.msg = ""

(***************************************************************************)
(* Claims about the WAV file.                                              *)
(***************************************************************************)

\* C28: a SaveToWAV call that returns true has written the 44 bytes of the
\* canonical header, with fileSize = 36 + dataSize, fmtSize 16, audioFormat
\* 1, the channels, sample rate and bits per sample of the bound format,
\* blockAlign = channels * bitsPerSample / 8, byteRate = sampleRate *
\* blockAlign, and dataSize the number of bytes that follow the header, also
\* when the capture thread wrote to the ring buffer during the call.
C28_CanonicalHeader ==
    [][(capCall'.op = "SaveToWAV" /\ capCall'.ret) =>
          LET f == wavFile'.bytes
          IN  /\ Len(f) >= 44
              /\ SubSeq(f, 1, 4) = RIFF
              /\ Field(f, 5, 4) = 36 + Field(f, 41, 4)
              /\ SubSeq(f, 9, 12) = WAVE
              /\ SubSeq(f, 13, 16) = FMT
              /\ Field(f, 17, 4) = 16
              /\ Field(f, 21, 2) = 1
              /\ Field(f, 23, 2) = audioFormat_.nChannels
              /\ Field(f, 25, 4) = audioFormat_.nSamplesPerSec
              /\ Field(f, 29, 4) = Field(f, 25, 4) * Field(f, 33, 2)
              /\ Field(f, 33, 2) = (Field(f, 23, 2) * Field(f, 35, 2)) \div 8
              /\ Field(f, 35, 2) = audioFormat_.wBitsPerSample
              /\ SubSeq(f, 37, 40) = DATA
              /\ Field(f, 41, 4) = Len(f) - 44
              /\ Field(f, 41, 4) > 0
      ]_vars

\* a stereo file was saved, and the ring buffer still holds bytes the
\* capture thread wrote while the call was between AvailableData and Read
C28_Witness ==
    /\ capCall.op = "SaveToWAV" /\ capCall.ret
    /\ audioFormat_ = Format(44100, 2, 16)
    /\ Len(wavFile.bytes) > 44
    /\ AvailableData(Cur) > 0

\* the header of a file has its four tags in place
TagsMatch(f) ==
    /\ Len(f) >= 44
    /\ SubSeq(f, 1, 4) = RIFF
    /\ SubSeq(f, 9, 12) = WAVE
    /\ SubSeq(f, 13, 16) = FMT
    /\ SubSeq(f, 37, 40) = DATA

\* C29: reading back a file SaveToWAV wrote gives the sample rate of its
\* header and as many samples as its data bytes hold; reading a file whose
\* tags do not match fails.
C29_WavRoundTrip ==
    capCall.op = "ReadWAVFile" =>
       IF TagsMatch(wavFile.bytes)
       THEN /\ wavRead.ret
            /\ wavRead.sample_rate = Field(wavFile.bytes, 25, 4)
            /\ wavRead.size = Field(wavFile.bytes, 41, 4)
                                 \div Field(wavFile.bytes, 33, 2)
       ELSE ~wavRead.ret

(***************************************************************************)
(* Claims about the threads that use the loaded model.                     *)
(***************************************************************************)

\* how many threads are inside whisper_full on m_currentModel
ThreadsInModel ==
    Cardinality({w \in Workers : wpc[w] = "model"})
    + (IF hostpc = "model" THEN 1 ELSE 0)

\* C30: at any instant at most one thread is inside the model call of an
\* engine: never two workers, and never a worker and a caller of
\* transcribeBuffer.
C30_OneThreadInModel == ThreadsInModel <= 1

\* C31: with several workers polling the queue, every job is dequeued once
\* and by one worker: no job is taken twice, no two workers hold the same
\* job at the same time, a job that has been queued is either still in the
\* queue or has been taken exactly once, and the observer is called at most
\* once with a terminal record of a job.
C31_JobTakenOnceNotifiedOnce ==
    /\ \A j \in 1..MaxJobs :
          /\ ledger.taken[j] <= 1
          /\ ledger.terminal[j] <= 1
          /\ (j <= njobs /\ hostjob = NoJob) =>
                (ledger.taken[j] = 1) #
                   (\E i \in DOMAIN ledger.queue : ledger.queue[i] = j)
    /\ \A v, w \in DOMAIN wpc :
          (v # w /\ wjob[v] # NoJob /\ wjob[w] # NoJob)
             => ledger.held[v] # ledger.held[w]

\* two workers have each taken a job from the queue: one has completed its
\* job and the observer has been told, the other is still at work on its own
C31_Witness ==
    /\ Cardinality(DOMAIN wpc) >= 2
    /\ \E v, w \in DOMAIN wpc :
          /\ v # w
          /\ wpc[v] \in {"loop", "poll"} /\ wpc[w] \in {"audio", "final"}
          /\ ledger.held[v] # NoJob /\ ledger.held[w] # NoJob
          /\ ledger.held[v] # ledger.held[w]
          /\ ledger.terminal[ledger.held[v]] = 1
          /\ ledger.taken[ledger.held[w]] = 1

\* the positions of a worker from which its next step is a call that
\* searches m_activeJobs: updateProgress, completeJob or failJob
AtMapCall == {"start", "try", "final", "complete", "catch"}

\* C32: the active-job map is never accessed by two threads at once: while
\* the host is inside the critical section of queueTranscription that
\* assigns m_activeJobs[jobId], no worker makes a step that searches or
\* changes that map.
C32_MapAccessesExclusive ==
    [][hostpc = "inserting" =>
          \A w \in DOMAIN wpc :
             wpc[w] \in AtMapCall => wpc'[w] = wpc[w]]_vars

\* C33: the session is recording exactly when its one capture thread is
\* alive: isRecording() is never true with a capture thread that has exited
\* or was never started, and never false with a capture thread running.
C33_RecordingIffCaptureThreadAlive ==
    recorder = "native" =>
       (m_isRecording <=> m_recordingThread = "running")

\* C34: the session is Stopped only after the capture thread has been
\* joined: isRecording() is never false while the capture thread of the
\* session is still running, and once stopRecording has returned no frame
\* is added to the queue.
C34_StoppedOnlyAfterJoin ==
    /\ [](recorder = "native" /\ ~m_isRecording
             => m_recordingThread # "running")
    /\ [][(~m_isRecording /\ ~Joining) => captured' = captured]_vars

\* C35: no audio captured while the session was paused is ever pushed to
\* the output queue or passed to the observer, neither during the pause nor
\* after resumeRecording: every sample that went into the queue, and every
\* sample of a frame the observer was called with, comes from a packet
\* captured while the session was not paused.
C35_PausedAudioNeverDelivered ==
    /\ \A i \in 1..Len(captured) : captured[i].v >= 0
    /\ frame.called => \A i \in 1..Len(frame.samples) : frame.samples[i].v >= 0

\* C36: a turn of the capture loop made while Recording and not paused
\* processes every packet the stream has available: when a turn has taken
\* a packet out of the endpoint buffer, the buffer is empty at the next wait.
C36_WakeDrainsAllPackets ==
    [][Len(endpointBuffer') < Len(endpointBuffer) => endpointBuffer' = <<>>]_vars

\* C37: the loaded model is never released or replaced while a
\* transcription is using it: no step frees or swaps m_currentModel while a
\* worker or a transcribeBuffer call is inside the model call; in
\* particular cleanup releases it only after every worker has been joined.
C37_ModelNotReleasedInUse ==
    [][m_currentModel # "null" /\ ThreadsInModel > 0
          => m_currentModel' = m_currentModel]_vars

\* C38: from the return of queueTranscription to the call of cleanup the job
\* of a returned id is in the active map or in the history at every instant,
\* and no getTranscriptionProgress call made for it returns the "Job not
\* found" stub.
C38_QueuedJobAlwaysFound ==
    /\ [](~cleanupCalled =>
            \A id \in submitted :
                id \in DOMAIN m_activeJobs \cup DOMAIN m_completedJobs)
    /\ [][(lastCall'.op = "getTranscriptionProgress" /\ ~cleanupCalled
              /\ lastCall'.id \in submitted)
             => lastCall'.msg # "Job not found"]_vars

\* C39: a session that is not recording does not report itself paused:
\* isPaused() is true only while isRecording() is true, also after
\* stopRecording was called on a paused session.
C39_PausedOnlyWhileRecording ==
    recorder = "native" => (m_isPaused => m_isRecording)

\* the largest magnitude among the samples processed after the last
\* resetPeakLevel
PeakSinceReset ==
    Peak([i \in 1..(Len(captured) - resetAt) |-> captured[resetAt + i].v])

\* C40: m_peakLevel does not decrease from one step to the next unless
\* resetPeakLevel is called, and what getPeakLevel() reports is the maximum
\* of the samples processed after the last reset, also when the reset came
\* while the capture thread was updating the levels.
C40_PeakMonotoneAndResetKept ==
    /\ [][resetAt' = resetAt => m_peakLevel' >= m_peakLevel]_vars
    /\ [](m_peakLevel = PeakSinceReset)

====
